---- MODULE Spec2Model ----
(***************************************************************************)
(* A model of reproducibly.py: the tar normalizer (cleanse_metadata), the  *)
(* zip normalizer (zipumask) and the scoped environment override           *)
(* (ModifiedEnvironment).                                                  *)
(*                                                                         *)
(* Conventions                                                             *)
(*   - a path is a sequence of names; "pkg/a.py" is <<"pkg", "a.py">>;     *)
(*   - a float timestamp is a record [s |-> whole seconds, h |-> 0 or 1],  *)
(*     h = 1 standing for a fractional part of one half second;            *)
(*   - a permission mode is a natural number, bits tested arithmetically;  *)
(*   - a zip external_attr (32 bits) is kept as its two 16-bit halves.     *)
(***************************************************************************)
EXTENDS Integers, Sequences, FiniteSets, TLC

VARIABLES
    env,        \* the process: effective uid, umask, time zone
    sdist,      \* the .tar.gz file at the archive path, or Absent
    input,      \* the file at the archive path before the last call
    epoch,      \* the mtime argument of the last cleanse_metadata call
    inputEpoch, \* the mtime argument of the call that produced input
    status,     \* outcome of the last call: "init", "ok" or "error"
    calls,      \* number of normalizer calls made so far
    wheel,      \* the members of the zip file at the wheel path
    wheelInput, \* the members at the wheel path before the last call
    umaskArg,   \* the umask argument of the last zipumask call
    inputUmask, \* the umask argument of the call that produced wheelInput
    environ,    \* os.environ: a function from the keys that are set
    ctx,        \* the ModifiedEnvironment object and its with statement
    steps,      \* statements the with block has run
    listing,    \* a list handed to sorted(..., key=key), then its result
    listingInput, \* the list before the last sorted() call
    sorts,      \* number of sorted() calls made so far
    distributions, \* the files named on the cleanse command line
    attempts,   \* outcome of each cleanse_metadata call the cleanse main made
    returncode, \* the cleanse main's local variable
    cleansePc,  \* where the cleanse main is: "loop", "returned", "raised"
    parsed,     \* what parse_args returned to reproducibly's main
    handled,    \* inputs main's two loops have gone through
    trace,      \* what main handed to its collaborators, in order
    mainPc,     \* where main is: "repositories", "sdists", "returned", "raised"
    requires,   \* the requirements handed to override as before
    constraints, \* the constraints handed to override
    after,      \* what override returned, or NotCalled
    args,       \* what build_wheels' parser returned, with what is on disk
    visited,    \* sdists build_wheels' main has handed on
    observed,   \* os.environ as each build_wheel_from_sdist call found it
    wheelsPc,   \* where build_wheels' main is: "run", "returned", "raised"
    fs,         \* the file system: the archive path, the scratch directory
                \* and what exists outside both
    call        \* the normalizer call under way and the statement it is at

vars == <<env, sdist, input, epoch, inputEpoch, status, calls, wheel,
          wheelInput, umaskArg, inputUmask, environ, ctx, steps, listing,
          listingInput, sorts, distributions, attempts, returncode,
          cleansePc, parsed, handled, trace, mainPc, requires,
          constraints, after, args, visited, observed, wheelsPc, fs, call>>

tarVars == <<env, sdist, input, epoch, inputEpoch, status>>
zipVars == <<wheel, wheelInput, umaskArg, inputUmask>>
envVars == <<environ, ctx, steps>>
keyVars == <<listing, listingInput, sorts>>
batchVars == <<distributions, attempts, returncode, cleansePc>>
mainVars == <<parsed, handled, trace, mainPc>>
overrideVars == <<requires, constraints, after>>
wheelsVars == <<args, visited, observed, wheelsPc>>
fsVars == <<fs, call>>

(***************************************************************************)
(* Bounds                                                                  *)
(***************************************************************************)
MaxEntries == 2     \* entries of an input tar archive
MaxCalls == 2       \* calls made in one behaviour
MaxMembers == 2     \* members of an input zip archive
MaxSteps == 2       \* statements run inside a with block
MaxPaths == 3       \* items of a list that is sorted
MaxBatch == 2       \* archives named on one cleanse command line
MaxInputs == 2      \* repositories and sdists named on one command line

(***************************************************************************)
(* Bit arithmetic on modes                                                 *)
(***************************************************************************)
S_IWGRP == 16       \* 0o020
S_IWOTH == 2        \* 0o002

Oct(a, b, c, d) == a * 512 + b * 64 + c * 8 + d

Bit(m, b) == (m \div b) % 2

\* m & ~b for a single-bit b
ClearBit(m, b) == IF Bit(m, b) = 1 THEN m - b ELSE m

PermBits == {1, 2, 4, 8, 16, 32, 64, 128, 256, 512, 1024, 2048}

(***************************************************************************)
(* Timestamps                                                              *)
(***************************************************************************)
Time(s, h) == [s |-> s, h |-> h]

TimeLT(a, b) == a.s < b.s \/ (a.s = b.s /\ a.h < b.h)

\* Python's max(a, b): a unless b > a
PyMax(a, b) == IF TimeLT(a, b) THEN b ELSE a

\* int(x) of a non-negative float
PyInt(t) == t.s

\* datetime(1980, 1, 1, 0, 0, 0).timestamp(): a naive datetime is taken as
\* local time, so the value is 315532800 plus the zone's offset west of UTC
EARLIEST(e) == Time(315532800 + e.tzwest, 0)

(***************************************************************************)
(* The bounded universe of inputs                                          *)
(***************************************************************************)
\* no file at the archive path; no call made yet
Absent == [exists |-> FALSE]
NoEpoch == [none |-> TRUE]

\* names in code point order, the order sorted() gives
NameOrder == <<"a.py", "b.c", "other", "pkg", "sub", "tmp", "tmpA", "tmpB">>

NameRank(n) == CHOOSE i \in 1..Len(NameOrder) : NameOrder[i] = n

DirPaths == {<<"pkg">>, <<"pkg", "sub">>}
FilePaths == {<<"pkg", "a.py">>, <<"pkg", "sub", "b.c">>}

Modes == {Oct(0, 7, 7, 7), Oct(4, 7, 5, 0), Oct(0, 0, 6, 6)}

Alice ==
    [uid |-> 1000, gid |-> 100, uname |-> "alice", gname |-> "users",
     mtime |-> 1685577600]
Root ==
    [uid |-> 0, gid |-> 0, uname |-> "root", gname |-> "root", mtime |-> 5]

MkEntry(p, t, m, o, d) ==
    [path |-> p, type |-> t, mode |-> m, uid |-> o.uid, gid |-> o.gid,
     uname |-> o.uname, gname |-> o.gname, mtime |-> o.mtime, data |-> d]

\* the members an input archive is made of; "other" is a second top-level
\* entry
Entries ==
    {MkEntry(p, "dir", m, Alice, "") : p \in DirPaths, m \in Modes}
    \cup
    {MkEntry(p, "file", m, Alice, "x") : p \in FilePaths, m \in Modes}
    \cup
    {MkEntry(p, "file", Oct(0, 6, 6, 4), Root, "y") : p \in FilePaths}
    \cup
    {MkEntry(<<"other">>, "file", Oct(0, 6, 4, 4), Alice, "x")}

EntrySeqs == UNION {[1..n -> Entries] : n \in 0..MaxEntries}

Envs == {
    [euid |-> 0, umask |-> Oct(0, 0, 2, 2), tzwest |-> 0],
    [euid |-> 1000, umask |-> Oct(0, 0, 7, 7), tzwest |-> 0],
    [euid |-> 1000, umask |-> Oct(0, 0, 2, 2), tzwest |-> 18000]}

Epochs == {Time(0, 0), Time(315532800, 1), Time(400000000, 1)}

\* names TemporaryDirectory() may pick, and wall-clock readings
ScratchDirs == {<<"tmp", "tmpA">>, <<"tmp", "tmpB">>}
Clock == {Time(1793657195, 1), Time(1793660000, 0)}

\* when the input archive was built
BuildTime == Time(1700000000, 1)

(***************************************************************************)
(* The user and group databases consulted by tarfile                       *)
(***************************************************************************)
PwNam == [root |-> 0, alice |-> 1000]
GrNam == [root |-> 0, users |-> 100]

PwUid(u) == IF u = 0 THEN "root" ELSE IF u = 1000 THEN "alice" ELSE ""
GrGid(g) == IF g = 0 THEN "root" ELSE IF g = 100 THEN "users" ELSE ""

(***************************************************************************)
(* tarfile.extractall: the directory tree an archive extracts to           *)
(***************************************************************************)
Parents(p) == {SubSeq(p, 1, k) : k \in 1..(Len(p) - 1)}

\* a directory os.makedirs creates for a member whose parent is missing
ImplicitDir(e, now) ==
    [type |-> "dir", mode |-> Oct(0, 7, 7, 7) - e.umask,
     uid |-> e.euid, gid |-> IF e.euid = 0 THEN 0 ELSE 100,
     mtime |-> PyInt(now), data |-> ""]

\* the file or directory a member becomes: chmod and utime always, chown
\* (by name when the name is known, else by id) only for the superuser
ExtractedNode(m, e) ==
    [type |-> m.type, mode |-> m.mode,
     uid |-> IF e.euid # 0 THEN e.euid
             ELSE IF m.uname \in DOMAIN PwNam THEN PwNam[m.uname] ELSE m.uid,
     gid |-> IF e.euid # 0 THEN 100
             ELSE IF m.gname \in DOMAIN GrNam THEN GrNam[m.gname] ELSE m.gid,
     mtime |-> m.mtime, data |-> m.data]

ExtractMember(tree, m, e, now) ==
    [q \in DOMAIN tree \cup Parents(m.path) \cup {m.path} |->
        IF q = m.path THEN ExtractedNode(m, e)
        ELSE IF q \in DOMAIN tree THEN tree[q]
        ELSE ImplicitDir(e, now)]

RECURSIVE ExtractFrom(_, _, _, _, _)
ExtractFrom(members, i, tree, e, now) ==
    IF i > Len(members) THEN tree
    ELSE ExtractFrom(members, i + 1, ExtractMember(tree, members[i], e, now),
                     e, now)

\* a tree is a function from the paths below the scratch directory to nodes
EmptyTree == [q \in {} |-> 0]

ExtractAll(members, e, now) == ExtractFrom(members, 1, EmptyTree, e, now)

\* Path(directory).iterdir()
TopLevel(tree) == {p \in DOMAIN tree : Len(p) = 1}

Children(tree, p) ==
    {q \in DOMAIN tree : Len(q) = Len(p) + 1 /\ SubSeq(q, 1, Len(p)) = p}

\* what a process that is not the superuser needs to archive the tree:
\* read permission on every node, search permission on a directory that
\* has children
CanRead(tree, e) ==
    \/ e.euid = 0
    \/ \A p \in DOMAIN tree :
        /\ Bit(tree[p].mode, 256) = 1
        /\ (Children(tree, p) # {} => Bit(tree[p].mode, 64) = 1)

(***************************************************************************)
(* cleanse_metadata                                                        *)
(***************************************************************************)
IsPrefix(pre, p) == Len(p) >= Len(pre) /\ SubSeq(p, 1, Len(pre)) = pre

\* str.removeprefix with a prefix that ends in "/"
RemovePrefix(p, pre) ==
    IF Len(p) > Len(pre) /\ IsPrefix(pre, p)
    THEN SubSeq(p, Len(pre) + 1, Len(p)) ELSE p

\* filter_ without the uname and gname assignment
filter_KeepsNames(tarinfo, mtime, prefix) ==
    [tarinfo EXCEPT
        !.mtime = PyInt(mtime),
        !.uid = 0, !.gid = 0,
        !.mode = ClearBit(ClearBit(tarinfo.mode, S_IWGRP), S_IWOTH),
        !.path = RemovePrefix(tarinfo.path, prefix)]

\* filter_ that clears the group-write bit only
filter_KeepsOtherWrite(tarinfo, mtime, prefix) ==
    [tarinfo EXCEPT
        !.mtime = PyInt(mtime),
        !.uid = 0, !.gid = 0,
        !.uname = "root", !.gname = "root",
        !.mode = ClearBit(tarinfo.mode, S_IWGRP),
        !.path = RemovePrefix(tarinfo.path, prefix)]

\* filter_ without the removeprefix
filter_KeepsPath(tarinfo, mtime, prefix) ==
    [tarinfo EXCEPT
        !.mtime = PyInt(mtime),
        !.uid = 0, !.gid = 0,
        !.uname = "root", !.gname = "root",
        !.mode = ClearBit(ClearBit(tarinfo.mode, S_IWGRP), S_IWOTH)]

\* filter_ without the mtime assignment
filter_KeepsMtime(tarinfo, mtime, prefix) ==
    [tarinfo EXCEPT
        !.uid = 0, !.gid = 0,
        !.uname = "root", !.gname = "root",
        !.mode = ClearBit(ClearBit(tarinfo.mode, S_IWGRP), S_IWOTH),
        !.path = RemovePrefix(tarinfo.path, prefix)]

filter_(tarinfo, mtime, prefix) ==
    [tarinfo EXCEPT
        !.mtime = PyInt(mtime),
        !.uid = 0, !.gid = 0,
        !.uname = "root", !.gname = "root",
        !.mode = ClearBit(ClearBit(tarinfo.mode, S_IWGRP), S_IWOTH),
        !.path = RemovePrefix(tarinfo.path, prefix)]

\* TarFile.gettarinfo: the member describing the node at scratch/p
GetTarInfo(tree, p, directory) ==
    [path |-> directory \o p, type |-> tree[p].type,
     mode |-> (IF tree[p].type = "dir" THEN 16384 ELSE 32768) + tree[p].mode,
     uid |-> tree[p].uid, gid |-> tree[p].gid,
     uname |-> PwUid(tree[p].uid), gname |-> GrGid(tree[p].gid),
     mtime |-> tree[p].mtime, data |-> tree[p].data]

\* the header as a reader of the archive sees it: twelve bits of mode
Stored(tarinfo) == [tarinfo EXCEPT !.mode = tarinfo.mode % 4096]

RECURSIVE SortedPaths(_)
SortedPaths(S) ==
    IF S = {} THEN <<>>
    ELSE LET first == CHOOSE p \in S : \A q \in S :
                          NameRank(p[Len(p)]) <= NameRank(q[Len(q)])
         IN <<first>> \o SortedPaths(S \ {first})

\* TarFile.add(name, filter=...): the node, then, for a directory, its
\* children in sorted order, each passed through the filter
RECURSIVE TarAdd(_, _, _, _, _)
RECURSIVE TarAddAll(_, _, _, _, _, _)
TarAdd(tree, p, directory, mtime, prefix) ==
    <<Stored(filter_(GetTarInfo(tree, p, directory), mtime, prefix))>>
    \o TarAddAll(tree, SortedPaths(Children(tree, p)), 1, directory, mtime,
                 prefix)

TarAddAll(tree, ps, i, directory, mtime, prefix) ==
    IF i > Len(ps) THEN <<>>
    ELSE TarAdd(tree, ps[i], directory, mtime, prefix)
         \o TarAddAll(tree, ps, i + 1, directory, mtime, prefix)

\* the archive file: members, gzip header mtime, st_mtime and st_atime
Archive(members, gzmtime, mtime, atime) ==
    [exists |-> TRUE, members |-> members, gzmtime |-> gzmtime,
     mtime |-> mtime, atime |-> atime]

\* cleanse_metadata with GzipFile(...) called without mtime=
cleanse_metadata_GzipNow(file, mtime_, e, directory, now) ==
    LET mtime == PyMax(mtime_, EARLIEST(e))
    IN  IF ~file.exists THEN [file |-> Absent, rc |-> "error"]
        ELSE
        LET tree == ExtractAll(file.members, e, now)
        IN  IF Cardinality(TopLevel(tree)) # 1
            THEN [file |-> Absent, rc |-> "error"]
            ELSE
            LET extracted == CHOOSE p \in TopLevel(tree) : TRUE
            IN  IF ~CanRead(tree, e)
                THEN [file |-> Absent, rc |-> "error"]
                ELSE [file |-> Archive(
                                  TarAdd(tree, extracted, directory, mtime,
                                         directory),
                                  PyInt(now), mtime, mtime),
                      rc |-> "ok"]

\* cleanse_metadata(path_, mtime) run on file in process e, with the name
\* TemporaryDirectory() picked and the wall clock: the file left at the
\* path and the outcome (0 returned, or an exception raised)
cleanse_metadata(file, mtime_, e, directory, now) ==
    LET mtime == PyMax(mtime_, EARLIEST(e))
    IN  IF ~file.exists THEN [file |-> Absent, rc |-> "error"]
        ELSE
        LET tree == ExtractAll(file.members, e, now)
        IN  IF Cardinality(TopLevel(tree)) # 1
            THEN [file |-> Absent, rc |-> "error"]
            ELSE
            LET extracted == CHOOSE p \in TopLevel(tree) : TRUE
            IN  IF ~CanRead(tree, e)
                THEN [file |-> Absent, rc |-> "error"]
                ELSE [file |-> Archive(
                                  TarAdd(tree, extracted, directory, mtime,
                                         directory),
                                  PyInt(mtime), mtime, mtime),
                      rc |-> "ok"]

(***************************************************************************)
(* zipumask                                                                *)
(***************************************************************************)
Bits16 == {1, 2, 4, 8, 16, 32, 64, 128, 256, 512, 1024, 2048, 4096, 8192,
           16384, 32768}

RECURSIVE SumOf(_, _)
SumOf(f, S) ==
    IF S = {} THEN 0
    ELSE LET b == CHOOSE x \in S : TRUE IN f[b] + SumOf(f, S \ {b})

\* m ^ u on 16 bits
Xor16(m, u) == SumOf([b \in Bits16 |-> b * ((Bit(m, b) + Bit(u, b)) % 2)],
                     Bits16)

\* m & ~u on 16 bits
AndNot16(m, u) == SumOf([b \in Bits16 |-> b * Bit(m, b) * (1 - Bit(u, b))],
                        Bits16)

\* len(data)
FileSize(data) == IF data = "x" THEN 1 ELSE 400

\* bytes zlib's raw deflate emits for data: one stored block at level 0,
\* otherwise (measured) 3 bytes for b"x" and 11 for b"One\n" * 100
DeflateSize(level, data) ==
    IF level = 0 THEN FileSize(data) + 5
    ELSE IF data = "x" THEN 3 ELSE 11

\* level None stands for zlib's default level
DefaultLevel == -1

CompressSize(compress_type, level, data) ==
    IF compress_type = "ZIP_STORED" THEN FileSize(data)
    ELSE DeflateSize(level, data)

\* a member as ZipFile.infolist() and read() give it; external_attr is
\* hi * 65536 + lo
ZipMember(filename, hi, lo, compress_type, level, data) ==
    [filename |-> filename, hi |-> hi, lo |-> lo,
     compress_type |-> compress_type,
     compress_size |-> CompressSize(compress_type, level, data),
     data |-> data]

\* ZipFile.writestr(member, data) given a ZipInfo: the member's own
\* compress_type, the default level, and ?rw------- when external_attr is 0
WriteStr(member) ==
    [member EXCEPT
        !.hi = IF member.hi = 0 /\ member.lo = 0 THEN Oct(0, 6, 0, 0) ELSE @,
        !.compress_size =
            CompressSize(member.compress_type, DefaultLevel, member.data)]

\* member.external_attr = member.external_attr ^ (umask << 16)
MaskToggles(member, umask) == [member EXCEPT !.hi = Xor16(@, umask)]

\* member.external_attr = member.external_attr & ~(umask << 16)
Mask(member, umask) == [member EXCEPT !.hi = AndNot16(@, umask)]

zipumask(members, umask) ==
    [i \in 1..Len(members) |-> WriteStr(Mask(members[i], umask))]

(***************************************************************************)
(* The zip normalizer as a state machine                                   *)
(***************************************************************************)
NoUmask == 0 - 1

Methods == {"ZIP_STORED", "ZIP_DEFLATED"}
Levels == {0, 6}

\* external_attr values: -rwxrwxrwx, -rw-rw-r-- with the archive bit,
\* drwxrwxr-x with the directory bit, no attributes at all, the archive
\* bit alone
Attrs == {<<32768 + Oct(0, 7, 7, 7), 0>>, <<32768 + Oct(0, 6, 6, 4), 32>>,
          <<16384 + Oct(0, 7, 7, 5), 16>>, <<0, 0>>, <<0, 32>>}

\* the file names of the input members and what each holds
ZipData == ("pkg/1.txt" :> "One100") @@ ("2.txt" :> "x")

ZipMembers ==
    {ZipMember(n, a[1], a[2], "ZIP_STORED", 0, ZipData[n]) :
        n \in DOMAIN ZipData, a \in Attrs}
    \cup
    {ZipMember(n, a[1], a[2], "ZIP_DEFLATED", l, ZipData[n]) :
        n \in DOMAIN ZipData, a \in Attrs, l \in Levels}

Umasks == {Oct(0, 0, 2, 2), Oct(0, 0, 7, 7)}

IdleTar ==
    /\ env = [euid |-> 0, umask |-> Oct(0, 0, 2, 2), tzwest |-> 0]
    /\ sdist = Absent
    /\ input = Absent
    /\ epoch = NoEpoch
    /\ inputEpoch = NoEpoch
    /\ status = "init"

IdleZip ==
    /\ wheel = <<>>
    /\ wheelInput = <<>>
    /\ umaskArg = NoUmask
    /\ inputUmask = NoUmask

IdleEnv ==
    /\ environ = [k \in {} |-> ""]
    /\ ctx = [pc |-> "idle"]
    /\ steps = 0

IdleKey ==
    /\ listing = <<>>
    /\ listingInput = <<>>
    /\ sorts = 0

IdleBatch ==
    /\ distributions = <<>>
    /\ attempts = <<>>
    /\ returncode = 0
    /\ cleansePc = "idle"

IdleMain ==
    /\ parsed = [repositories |-> <<>>, sdists |-> <<>>]
    /\ handled = 0
    /\ trace = <<>>
    /\ mainPc = "idle"

NotCalled == [called |-> FALSE]

IdleOverride ==
    /\ requires = {}
    /\ constraints = {}
    /\ after = NotCalled

IdleWheels ==
    /\ args = [source_distribution |-> <<>>, output |-> "dir"]
    /\ visited = 0
    /\ observed = <<>>
    /\ wheelsPc = "idle"

IdleFs ==
    /\ fs = [path |-> "absent", scratch |-> [exists |-> FALSE], outside |-> {}]
    /\ call = [pc |-> "idle"]

InitZip ==
    /\ IdleOverride
    /\ IdleWheels
    /\ IdleFs
    /\ wheel \in UNION {[1..n -> ZipMembers] : n \in 1..MaxMembers}
    /\ wheelInput = <<>>
    /\ umaskArg = NoUmask
    /\ inputUmask = NoUmask
    /\ calls = 0
    /\ IdleTar
    /\ IdleEnv
    /\ IdleKey
    /\ IdleBatch
    /\ IdleMain

ZipUmask(umask) ==
    /\ calls < MaxCalls
    /\ calls' = calls + 1
    /\ wheelInput' = wheel
    /\ inputUmask' = umaskArg
    /\ umaskArg' = umask
    /\ wheel' = zipumask(wheel, umask)
    /\ UNCHANGED <<overrideVars, wheelsVars, fsVars,
                   tarVars, envVars, keyVars, batchVars, mainVars>>

NextZip == \E umask \in Umasks : ZipUmask(umask)

SpecZip == InitZip /\ [][NextZip]_vars

(***************************************************************************)
(* ModifiedEnvironment                                                     *)
(***************************************************************************)
\* None, which is no string an environment variable can hold
None == "<None>"

Keys == {"SOURCE_DATE_EPOCH", "CIBW_BUILD_FRONTEND"}
Values == {"315532800", "build"}

\* os.environ.get(key)
Get(environ_, key) == IF key \in DOMAIN environ_ THEN environ_[key] ELSE None

\* _update that skips the keys whose value is None
_updateKeepsKeys(environ_, other) ==
    LET set == {k \in DOMAIN other : other[k] # None}
    IN  [k \in DOMAIN environ_ \cup set |->
            IF k \in set THEN other[k] ELSE environ_[k]]

\* ModifiedEnvironment._update: delete the keys given None, set the others
_update(environ_, other) ==
    LET deleted == {k \in DOMAIN other : other[k] = None}
        set == {k \in DOMAIN other : other[k] # None}
    IN  [k \in (DOMAIN environ_ \ deleted) \cup set |->
            IF k \in set THEN other[k] ELSE environ_[k]]

\* the keyword arguments a ModifiedEnvironment may be built with
Overrides ==
    UNION {[K -> Values \cup {None}] : K \in (SUBSET Keys) \ {{}}}

Environs == UNION {[K -> Values] : K \in SUBSET Keys}

InitEnv ==
    /\ IdleOverride
    /\ IdleWheels
    /\ IdleFs
    /\ environ \in Environs
    /\ ctx = [pc |-> "idle"]
    /\ steps = 0
    /\ calls = 0
    /\ IdleTar
    /\ IdleZip
    /\ IdleKey
    /\ IdleBatch
    /\ IdleMain

\* with ModifiedEnvironment(**during): __init__ and __enter__
Enter(during) ==
    /\ ctx.pc = "idle"
    /\ LET before == [k \in DOMAIN during |-> Get(environ, k)]
       IN  /\ ctx' = [pc |-> "body", during |-> during, before |-> before,
                      entry |-> environ]
           /\ environ' = _update(environ, during)
    /\ steps' = 0
    /\ UNCHANGED <<overrideVars, wheelsVars, fsVars,
                   tarVars, zipVars, keyVars, batchVars, mainVars, calls>>

\* a statement of the block assigns an environment variable
BodySet(key, value) ==
    /\ ctx.pc = "body"
    /\ steps < MaxSteps
    /\ steps' = steps + 1
    /\ environ' = [k \in DOMAIN environ \cup {key} |->
                      IF k = key THEN value ELSE environ[k]]
    /\ UNCHANGED <<overrideVars, wheelsVars, fsVars,
                   tarVars, zipVars, keyVars, batchVars, mainVars, calls, ctx>>

\* a statement of the block deletes an environment variable
BodyDel(key) ==
    /\ ctx.pc = "body"
    /\ steps < MaxSteps
    /\ key \in DOMAIN environ
    /\ steps' = steps + 1
    /\ environ' = [k \in DOMAIN environ \ {key} |-> environ[k]]
    /\ UNCHANGED <<overrideVars, wheelsVars, fsVars,
                   tarVars, zipVars, keyVars, batchVars, mainVars, calls, ctx>>

\* the block ends normally: __exit__(None, None, None)
ExitNormally ==
    /\ ctx.pc = "body"
    /\ environ' = _update(environ, ctx.before)
    /\ ctx' = [ctx EXCEPT !.pc = "exited"]
    /\ UNCHANGED <<overrideVars, wheelsVars, fsVars,
                   tarVars, zipVars, keyVars, batchVars, mainVars, calls, steps>>

\* a statement of the block raises: __exit__ runs with the exception and
\* returns None, so the exception propagates
ExitRaising ==
    /\ ctx.pc = "body"
    /\ environ' = _update(environ, ctx.before)
    /\ ctx' = [ctx EXCEPT !.pc = "raised"]
    /\ UNCHANGED <<overrideVars, wheelsVars, fsVars,
                   tarVars, zipVars, keyVars, batchVars, mainVars, calls, steps>>

NextEnv ==
    \/ \E during \in Overrides : Enter(during)
    \/ \E key \in Keys, value \in Values : BodySet(key, value)
    \/ \E key \in Keys : BodyDel(key)
    \/ ExitNormally
    \/ ExitRaising

SpecEnv == InitEnv /\ [][NextEnv]_vars

(***************************************************************************)
(* Strings as sequences of characters                                      *)
(***************************************************************************)
\* the characters used, in code point order
CharOrder ==
    <<"\n", "+", ",", "-", ".", "/", "1", "2", "C", "D", "E", "H", "L", "O", "R",
      "W", "a", "c", "d", "f", "i", "j", "n", "o", "p", "s", "t", "w", "x",
      "y", "z">>

CharRank(c) == CHOOSE i \in 1..Len(CharOrder) : CharOrder[i] = c

\* a < b for two str values
RECURSIVE StrLess(_, _)
StrLess(a, b) ==
    IF b = <<>> THEN FALSE
    ELSE IF a = <<>> THEN TRUE
    ELSE IF a[1] # b[1] THEN CharRank(a[1]) < CharRank(b[1])
    ELSE StrLess(Tail(a), Tail(b))

\* sub in text
Contains(text, sub) ==
    \E k \in 0..(Len(text) - Len(sub)) :
        SubSeq(text, k + 1, k + Len(sub)) = sub

\* text.endswith(suffix)
EndsWith(text, suffix) ==
    /\ Len(text) >= Len(suffix)
    /\ SubSeq(text, Len(text) - Len(suffix) + 1, Len(text)) = suffix

\* text.partition(sep) for a one-character sep: <<start, sep, end>>
Partition(text, sep) ==
    LET at == {k \in 1..Len(text) : text[k] = sep}
    IN  IF at = {} THEN <<text, <<>>, <<>>>>
        ELSE LET k == CHOOSE k \in at : \A j \in at : k <= j
             IN  <<SubSeq(text, 1, k - 1), <<sep>>,
                   SubSeq(text, k + 1, Len(text))>>

(***************************************************************************)
(* breadth_first_key and key                                               *)
(***************************************************************************)
\* the values a key is made of: a str, or a list of such values
Str(text) == [str |-> text]
List(items) == [list |-> items]

IsStr(x) == "str" \in DOMAIN x

\* breadth_first_key returning [start, sep, ...]
RECURSIVE breadth_first_key_StartFirst(_)
breadth_first_key_StartFirst(path) ==
    LET parts == Partition(path, "/")
    IN  IF parts[3] # <<>>
        THEN List(<<Str(parts[1]), Str(parts[2]),
                    breadth_first_key_StartFirst(parts[3])>>)
        ELSE List(<<Str(parts[1]), Str(parts[2])>>)

\* breadth_first_key on path.rstrip("/")
RECURSIVE breadth_first_key_Stripped(_)
breadth_first_key_Stripped(path) ==
    LET parts == Partition(path, "/")
    IN  IF parts[3] # <<>>
        THEN List(<<Str(parts[2]), Str(parts[1]),
                    breadth_first_key_Stripped(parts[3])>>)
        ELSE List(<<Str(<<>>), Str(parts[1])>>)

\* breadth_first_key that recurses whenever there is a separator
RECURSIVE breadth_first_key_AlwaysNested(_)
breadth_first_key_AlwaysNested(path) ==
    LET parts == Partition(path, "/")
    IN  IF parts[2] # <<>>
        THEN List(<<Str(parts[2]), Str(parts[1]),
                    breadth_first_key_AlwaysNested(parts[3])>>)
        ELSE List(<<Str(parts[2]), Str(parts[1])>>)

\* breadth_first_key that keeps a last component as it is
RECURSIVE breadth_first_key_FlatLeaf(_)
breadth_first_key_FlatLeaf(path) ==
    LET parts == Partition(path, "/")
    IN  IF parts[3] # <<>>
        THEN IF Contains(parts[3], <<"/">>)
             THEN List(<<Str(parts[2]), Str(parts[1]),
                         breadth_first_key_FlatLeaf(parts[3])>>)
             ELSE List(<<Str(parts[2]), Str(parts[1]), Str(parts[3])>>)
        ELSE List(<<Str(parts[2]), Str(parts[1])>>)

RECURSIVE breadth_first_key(_)
breadth_first_key(path) ==
    LET parts == Partition(path, "/")
    IN  IF parts[3] # <<>>
        THEN List(<<Str(parts[2]), Str(parts[1]),
                    breadth_first_key(parts[3])>>)
        ELSE List(<<Str(parts[2]), Str(parts[1])>>)

\* x == y, which never raises
RECURSIVE PyEq(_, _)
PyEq(x, y) ==
    IF IsStr(x) # IsStr(y) THEN FALSE
    ELSE IF IsStr(x) THEN x.str = y.str
    ELSE /\ Len(x.list) = Len(y.list)
         /\ \A i \in 1..Len(x.list) : PyEq(x.list[i], y.list[i])

\* how x < y is decided: two str by code points, two lists by their first
\* differing elements or else by length, a str and a list not at all
RECURSIVE Compare(_, _)
Compare(x, y) ==
    IF IsStr(x) /\ IsStr(y)
    THEN IF x.str = y.str THEN "eq"
         ELSE IF StrLess(x.str, y.str) THEN "lt" ELSE "gt"
    ELSE IF IsStr(x) \/ IsStr(y) THEN "TypeError"
    ELSE LET a == x.list
             b == y.list
             n == IF Len(a) <= Len(b) THEN Len(a) ELSE Len(b)
             differ == {i \in 1..n : ~PyEq(a[i], b[i])}
         IN  IF differ = {}
             THEN IF Len(a) = Len(b) THEN "eq"
                  ELSE IF Len(a) < Len(b) THEN "lt" ELSE "gt"
             ELSE LET i == CHOOSE i \in differ : \A j \in differ : i <= j
                  IN  Compare(a[i], b[i])

\* a < b for two lists breadth_first_key returns
ListLess(a, b) == Compare(a, b) = "lt"

\* an argument of key: a ZipInfo with this filename, or a line of bytes
ZipInfo(filename) == [hasFilename |-> TRUE, text |-> filename]
Bytes(line) == [hasFilename |-> FALSE, text |-> line]

S_RECORD == <<"/", "R", "E", "C", "O", "R", "D">>
S_distinfo == <<"d", "i", "s", "t", "-", "i", "n", "f", "o">>

\* the path key classifies: the filename, or the line up to the first comma
KeyPath(input_) ==
    IF input_.hasFilename THEN input_.text
    ELSE Partition(input_.text, ",")[1]

\* key that tests "dist-info" before "/RECORD"
key_DistInfoFirst(input_) ==
    LET path == KeyPath(input_)
        group == IF Contains(path, S_distinfo) THEN 2
                 ELSE IF Contains(path, S_RECORD) THEN 3 ELSE 1
    IN  <<group, breadth_first_key(input_.text)>>

\* key that returns the group alone
key_GroupOnly(input_) ==
    LET path == KeyPath(input_)
        group == IF Contains(path, S_RECORD) THEN 3
                 ELSE IF Contains(path, S_distinfo) THEN 2 ELSE 1
    IN  <<group, List(<<Str(<<>>), Str(<<>>)>>)>>

key(input_) ==
    LET path == KeyPath(input_)
        group == IF Contains(path, S_RECORD) THEN 3
                 ELSE IF Contains(path, S_distinfo) THEN 2 ELSE 1
    IN  <<group, breadth_first_key(input_.text)>>

\* how a < b is decided for two tuples key returns
KeyCompare(a, b) ==
    IF a[1] # b[1] THEN (IF a[1] < b[1] THEN "lt" ELSE "gt")
    ELSE Compare(a[2], b[2])

\* a < b for two tuples key returns
KeyLess(a, b) == KeyCompare(a, b) = "lt"

\* sorted(items, key=key) raises TypeError
SortRaises(items) ==
    \E i, j \in 1..Len(items) :
        KeyCompare(key(items[i]), key(items[j])) = "TypeError"

\* sorted(items, key=key): a stable sort, each item placed before the first
\* item whose key is greater
RECURSIVE InsertByKey(_, _)
InsertByKey(done, x) ==
    IF done = <<>> THEN <<x>>
    ELSE IF KeyLess(key(x), key(done[Len(done)]))
         THEN Append(InsertByKey(SubSeq(done, 1, Len(done) - 1), x),
                     done[Len(done)])
         ELSE Append(done, x)

RECURSIVE SortedByKey(_)
SortedByKey(items) ==
    IF items = <<>> THEN <<>>
    ELSE InsertByKey(SortedByKey(SubSeq(items, 1, Len(items) - 1)),
                     items[Len(items)])

(***************************************************************************)
(* Sorting as a state machine                                              *)
(***************************************************************************)
\* file names of zip members
FileNames == {
    <<"2",".","p","y">>,
    <<"1","/","x",".","p","y">>,
    <<"1","/","2",".","p","y">>,
    <<"1","/","1","/","x",".","p","y">>,
    <<"z",".","p","y">>,
    <<"p",".","d","i","s","t","-","i","n","f","o","/","W","H","E","E","L">>,
    <<"p",".","d","i","s","t","-","i","n","f","o","/","R","E","C","O","R","D">>,
    <<"R","E","C","O","R","D">>,
    <<"a">>,
    <<"a","/">>,
    <<"a","/","/","x">>,
    <<"a","+","x">>}

\* lines of a RECORD file
RecordLines == {
    <<"2",".","p","y",",","x",",","1","\n">>,
    <<"1","/","x",".","p","y",",","x",",","1","\n">>,
    <<"p",".","d","i","s","t","-","i","n","f","o","/","W","H","E","E","L",",","x",",","1","\n">>,
    <<"p",".","d","i","s","t","-","i","n","f","o","/","R","E","C","O","R","D",",",",","\n">>,
    <<"a",",","x",",","1","\n">>,
    <<"a","+","x",",","x",",","1","\n">>}

\* the lists of distinct items taken from U, at most MaxPaths long
Listings(U) ==
    UNION {{l \in [1..n -> U] : \A i, j \in 1..n : l[i] = l[j] => i = j} :
           n \in 0..MaxPaths}

InitKey ==
    /\ IdleOverride
    /\ IdleWheels
    /\ IdleFs
    /\ listing \in Listings({ZipInfo(f) : f \in FileNames})
                   \cup Listings({Bytes(l) : l \in RecordLines})
    /\ listingInput = <<>>
    /\ sorts = 0
    /\ calls = 0
    /\ IdleTar
    /\ IdleZip
    /\ IdleEnv
    /\ IdleBatch
    /\ IdleMain

\* listing = sorted(listing, key=key)
Sort ==
    /\ sorts < MaxCalls
    /\ sorts' = sorts + 1
    /\ listingInput' = listing
    /\ listing' = IF SortRaises(listing) THEN listing
                  ELSE SortedByKey(listing)
    /\ UNCHANGED <<overrideVars, wheelsVars, fsVars,
                   tarVars, zipVars, envVars, batchVars, mainVars, calls>>

NextKey == Sort

SpecKey == InitKey /\ [][NextKey]_vars

(***************************************************************************)
(* _sortwheel                                                              *)
(***************************************************************************)
\* data.splitlines(keepends=True) for data whose only line boundary is "\n"
RECURSIVE SplitLines(_)
SplitLines(data) ==
    IF data = <<>> THEN <<>>
    ELSE LET parts == Partition(data, "\n")
         IN  IF parts[2] = <<>> THEN <<data>>
             ELSE <<parts[1] \o parts[2]>> \o SplitLines(parts[3])

\* b"".join(lines)
RECURSIVE Join(_)
Join(lines) == IF lines = <<>> THEN <<>> ELSE Head(lines) \o Join(Tail(lines))

\* a member as infolist() and read() give it: a ZipInfo with its data
WheelMember(filename, data, hi, lo) ==
    [hasFilename |-> TRUE, text |-> filename, data |-> data, hi |-> hi,
     lo |-> lo]

S_RECORDsuffix == <<"R", "E", "C", "O", "R", "D">>

\* the lines of data in sorted order, joined
SortedLines(data) ==
    LET lines == SplitLines(data)
        sorted_ == SortedByKey([i \in 1..Len(lines) |-> Bytes(lines[i])])
    IN  Join([i \in 1..Len(sorted_) |-> sorted_[i].text])

\* the members of the wheel _sortwheel leaves at the path: sorted by key,
\* the lines of those whose name ends with RECORD sorted by key, each
\* written with writestr
_sortwheel(members_) ==
    LET members == SortedByKey(members_)
    IN  [i \in 1..Len(members) |->
            [members[i] EXCEPT
                !.data = IF EndsWith(members[i].text, S_RECORDsuffix)
                         THEN SortedLines(@) ELSE @,
                !.hi = IF members[i].hi = 0 /\ members[i].lo = 0
                       THEN Oct(0, 6, 0, 0) ELSE @]]

\* names of wheel members
WheelNames == {
    <<"R","E","C","O","R","D">>,
    <<"p",".","d","i","s","t","-","i","n","f","o","/","R","E","C","O","R","D">>,
    <<"p",".","d","i","s","t","-","i","n","f","o","/","R","E","C","O","R","D",".","j","w","s">>,
    <<"1","/","x",".","p","y">>}

\* what a member may hold: two lines out of order, in order, and out of
\* order without a newline at the end
WheelData == {
    <<"1","/","x",".","p","y",",","x",",","1","\n","2",".","p","y",",","x",",","1","\n">>,
    <<"2",".","p","y",",","x",",","1","\n","1","/","x",".","p","y",",","x",",","1","\n">>,
    <<"1","/","x",".","p","y",",","x",",","1","\n","2",".","p","y",",","x",",","1">>}

WheelMembers ==
    {WheelMember(n, d, 32768 + Oct(0, 6, 6, 4), 0) :
        n \in WheelNames, d \in WheelData}

InitSortwheel ==
    /\ IdleOverride
    /\ IdleWheels
    /\ IdleFs
    /\ wheel \in UNION {{w \in [1..n -> WheelMembers] :
                            \A i, j \in 1..n : w[i].text = w[j].text => i = j} :
                        n \in 1..MaxMembers}
    /\ wheelInput = <<>>
    /\ umaskArg = NoUmask
    /\ inputUmask = NoUmask
    /\ calls = 0
    /\ IdleTar
    /\ IdleEnv
    /\ IdleKey
    /\ IdleBatch
    /\ IdleMain

Sortwheel ==
    /\ calls < MaxCalls
    /\ calls' = calls + 1
    /\ wheelInput' = wheel
    /\ wheel' = _sortwheel(wheel)
    /\ UNCHANGED <<overrideVars, wheelsVars, fsVars,
                   tarVars, envVars, keyVars, batchVars, mainVars, umaskArg,
                   inputUmask>>

NextSortwheel == Sortwheel

SpecSortwheel == InitSortwheel /\ [][NextSortwheel]_vars

(***************************************************************************)
(* The tar normalizer as a state machine                                   *)
(***************************************************************************)
InitTar ==
    /\ IdleOverride
    /\ IdleWheels
    /\ IdleFs
    /\ env \in Envs
    /\ \E ms \in EntrySeqs :
          sdist = Archive(ms, PyInt(BuildTime), BuildTime, BuildTime)
    /\ input = Absent
    /\ epoch = NoEpoch
    /\ inputEpoch = NoEpoch
    /\ status = "init"
    /\ calls = 0
    /\ IdleZip
    /\ IdleEnv
    /\ IdleKey
    /\ IdleBatch
    /\ IdleMain

CleanseMetadata(mtime, directory, now) ==
    LET r == cleanse_metadata(sdist, mtime, env, directory, now)
    IN  /\ calls < MaxCalls
        /\ calls' = calls + 1
        /\ input' = sdist
        /\ inputEpoch' = IF status = "ok" THEN epoch ELSE NoEpoch
        /\ epoch' = mtime
        /\ sdist' = r.file
        /\ status' = r.rc
        /\ UNCHANGED <<overrideVars, wheelsVars, fsVars,
                       env, zipVars, envVars, keyVars, batchVars, mainVars>>

NextTar ==
    \E mtime \in Epochs, directory \in ScratchDirs, now \in Clock :
        CleanseMetadata(mtime, directory, now)

SpecTar == InitTar /\ [][NextTar]_vars

(***************************************************************************)
(* The cleanse main: one cleanse_metadata call for each archive named      *)
(***************************************************************************)
Min(a, b) == IF a <= b THEN a ELSE b

Pkg == MkEntry(<<"pkg">>, "dir", Oct(0, 7, 7, 7), Alice, "")
PkgA == MkEntry(<<"pkg", "a.py">>, "file", Oct(0, 7, 7, 7), Alice, "x")
PkgSub == MkEntry(<<"pkg", "sub">>, "dir", Oct(0, 7, 7, 7), Alice, "")
PkgSubB == MkEntry(<<"pkg", "sub", "b.c">>, "file", Oct(0, 6, 6, 4), Root, "y")
Other == MkEntry(<<"other">>, "file", Oct(0, 6, 4, 4), Alice, "x")

Built(ms) == Archive(ms, PyInt(BuildTime), BuildTime, BuildTime)

\* archives on disk: three that hold one top-level directory, one that holds
\* two top-level entries, one without members
BatchFiles ==
    {Built(<<Pkg, PkgA>>), Built(<<Pkg, PkgSub, PkgSubB>>),
     Built(<<Pkg, PkgA, PkgSub, PkgSubB>>), Built(<<Pkg, Other>>),
     Built(<<>>)}

InitBatch ==
    /\ IdleOverride
    /\ IdleWheels
    /\ IdleFs
    /\ env \in Envs
    /\ distributions \in UNION {[1..n -> BatchFiles] : n \in 1..MaxBatch}
    /\ attempts = <<>>
    /\ returncode = 0
    /\ cleansePc = "loop"
    /\ calls = 0
    /\ sdist = Absent
    /\ input = Absent
    /\ epoch = NoEpoch
    /\ inputEpoch = NoEpoch
    /\ status = "init"
    /\ IdleZip
    /\ IdleEnv
    /\ IdleKey
    /\ IdleMain

\* one pass of the for loop: cleanse_metadata(distribution) returns 0 or
\* raises; what it raises is not caught
CleanseNext(directory, now) ==
    LET i == Len(attempts) + 1
        r == cleanse_metadata(distributions[i], EARLIEST(env), env, directory,
                              now)
    IN  /\ cleansePc = "loop"
        /\ i <= Len(distributions)
        /\ distributions' = [distributions EXCEPT ![i] = r.file]
        /\ attempts' = Append(attempts, r.rc)
        /\ IF r.rc = "ok"
           THEN /\ returncode' = Min(0, 1)
                /\ cleansePc' = "loop"
           ELSE /\ returncode' = returncode
                /\ cleansePc' = "raised"
        /\ UNCHANGED <<overrideVars, wheelsVars, fsVars,
                       tarVars, zipVars, envVars, keyVars, mainVars, calls>>

\* return returncode
CleanseReturn ==
    /\ cleansePc = "loop"
    /\ Len(attempts) = Len(distributions)
    /\ cleansePc' = "returned"
    /\ UNCHANGED <<overrideVars, wheelsVars, fsVars,
                   tarVars, zipVars, envVars, keyVars, mainVars, calls,
                   distributions, attempts, returncode>>

NextBatch ==
    \/ \E directory \in ScratchDirs, now \in Clock :
          CleanseNext(directory, now)
    \/ CleanseReturn

SpecBatch == InitBatch /\ [][NextBatch]_vars

(***************************************************************************)
(* Text and numbers: float(), "{:.0f}".format(), member names              *)
(***************************************************************************)
DigitChars == <<"0", "1", "2", "3", "4", "5", "6", "7", "8", "9">>

IsDigits(text) ==
    /\ text # <<>>
    /\ \A i \in 1..Len(text) : \E d \in 1..10 : DigitChars[d] = text[i]

DigitValue(c) == (CHOOSE d \in 1..10 : DigitChars[d] = c) - 1

\* int(text) of a run of decimal digits
RECURSIVE IntOf(_)
IntOf(text) ==
    IF text = <<>> THEN 0
    ELSE 10 * IntOf(SubSeq(text, 1, Len(text) - 1))
         + DigitValue(text[Len(text)])

\* the decimal digits of a natural number
RECURSIVE DigitsOf(_)
DigitsOf(n) ==
    IF n < 10 THEN <<DigitChars[n + 1]>>
    ELSE Append(DigitsOf(n \div 10), DigitChars[(n % 10) + 1])

\* float(text) for text of the form digits or digits.0 or digits.5;
\* any other text raises ValueError
Float(text) ==
    LET parts == Partition(text, ".")
    IN  IF IsDigits(text) THEN [ok |-> TRUE, value |-> Time(IntOf(text), 0)]
        ELSE IF IsDigits(parts[1]) /\ parts[3] \in {<<"0">>, <<"5">>}
        THEN [ok |-> TRUE,
              value |-> Time(IntOf(parts[1]), IF parts[3] = <<"5">> THEN 1
                                              ELSE 0)]
        ELSE [ok |-> FALSE]

\* text.rstrip("\n")
RECURSIVE RStripNewline(_)
RStripNewline(text) ==
    IF text # <<>> /\ text[Len(text)] = "\n"
    THEN RStripNewline(SubSeq(text, 1, Len(text) - 1))
    ELSE text

\* the characters of the strings environment variables hold
Spell ==
    ("0" :> <<"0">>) @@ ("5" :> <<"5">>) @@ ("315532800" :> <<"3","1","5","5","3","2","8","0","0">>) @@
    ("1685577600" :> <<"1","6","8","5","5","7","7","6","0","0">>) @@ ("978307200.0" :> <<"9","7","8","3","0","7","2","0","0",".","0">>) @@
    ("build" :> <<"b","u","i","l","d">>)

\* the string made of these characters
Unspell(text) == CHOOSE v \in DOMAIN Spell : Spell[v] = text

\* the characters of the names archive members are made of
SpellName ==
    ("pkg" :> <<"p","k","g">>) @@ ("sub" :> <<"s","u","b">>) @@ ("a.py" :> <<"a",".","p","y">>) @@
    ("b.c" :> <<"b",".","c">>) @@ ("x.cfg" :> <<"x",".","c","f","g">>) @@ ("other" :> <<"o","t","h","e","r">>)

\* TarInfo.name: the components joined by "/"
RECURSIVE MemberName(_)
MemberName(path) ==
    IF Len(path) = 1 THEN SpellName[path[1]]
    ELSE SpellName[path[1]] \o <<"/">> \o MemberName(Tail(path))

(***************************************************************************)
(* Builder.which, latest_modification_time, latest_commit_time             *)
(***************************************************************************)
S_dotc == <<".","c">>

\* Builder.which that tests '".c" in i.name'
which_Anywhere(archive) ==
    IF \E i \in 1..Len(archive.members) :
           Contains(MemberName(archive.members[i].path), S_dotc)
    THEN "cibuildwheel" ELSE "build"

which(archive) ==
    IF \E i \in 1..Len(archive.members) :
           EndsWith(MemberName(archive.members[i].path), S_dotc)
    THEN "cibuildwheel" ELSE "build"

\* max() of a non-empty set of integers
MaxOf(T) == CHOOSE t \in T : \A u \in T : u <= t

\* latest_modification_time: max() of no members raises ValueError
latest_modification_time(archive) ==
    IF archive.members = <<>> THEN [ok |-> FALSE]
    ELSE [ok |-> TRUE,
          value |-> Unspell(DigitsOf(MaxOf(
              {archive.members[i].mtime : i \in 1..Len(archive.members)})))]

\* repositories parse_args accepted, with what "git log -1 --pretty=%ct"
\* does in them: prints a time, exits non-zero (no commit yet), or cannot be
\* started
Repositories == {
    [name |-> "repo", git |-> "ok", stdout |-> <<"1","6","8","5","5","7","7","6","0","0","\n">>],
    [name |-> "old", git |-> "ok", stdout |-> <<"5","\n">>],
    [name |-> "empty", git |-> "CalledProcessError", stdout |-> <<>>],
    [name |-> "nogit", git |-> "FileNotFoundError", stdout |-> <<>>]}

\* latest_commit_time: run(..., check=True) raises when git fails
latest_commit_time(repository) ==
    IF repository.git # "ok" THEN [ok |-> FALSE]
    ELSE Float(RStripNewline(repository.stdout))

(***************************************************************************)
(* main                                                                    *)
(***************************************************************************)
SDE == "SOURCE_DATE_EPOCH"

\* lines 376-379 with an except clause that falls back to EARLIEST
ResolveDate_Defaults(environ_, repository) ==
    IF SDE \in DOMAIN environ_
    THEN Float(Spell[environ_[SDE]]) @@ [git |-> "unused"]
    ELSE LET t == latest_commit_time(repository)
         IN  IF t.ok THEN t @@ [git |-> "ok"]
             ELSE [ok |-> TRUE, value |-> Time(315532800, 0),
                   git |-> "failed"]

\* lines 376-379 without the test for the override
ResolveDate_CommitOnly(environ_, repository) ==
    latest_commit_time(repository)
    @@ [git |-> IF repository.git = "ok" THEN "ok" ELSE "failed"]

\* the date main passes to cleanse_metadata for a repository
ResolveDate(environ_, repository) ==
    IF SDE \in DOMAIN environ_
    THEN Float(Spell[environ_[SDE]]) @@ [git |-> "unused"]
    ELSE latest_commit_time(repository)
         @@ [git |-> IF repository.git = "ok" THEN "ok" ELSE "failed"]

\* the keyword arguments of the ModifiedEnvironment in _cibuildwheel
CibwEnvironment ==
    [CIBW_DEPENDENCY_VERSIONS |-> "constraints.txt",
     CIBW_BUILD_FRONTEND |-> "build",
     CIBW_CONTAINER_ENGINE |-> "podman",
     CIBW_ENVIRONMENT_PASS_LINUX |-> "SOURCE_DATE_EPOCH",
     CIBW_ENVIRONMENT |-> "PIP_TIMEOUT=150 PIP_CONSTRAINT=/constraints.txt"]

\* ModifiedEnvironment.__enter__: self.before
Before(environ_, during) == [k \in DOMAIN during |-> Get(environ_, k)]

PkgCfg == MkEntry(<<"pkg", "x.cfg">>, "file", Oct(0, 6, 6, 4), Alice, "x")
OldPkg == MkEntry(<<"pkg">>, "dir", Oct(0, 7, 5, 5), Root, "")
OldPkgA == MkEntry(<<"pkg", "a.py">>, "file", Oct(0, 6, 6, 4), Root, "y")

\* sdists named on the command line
Sdists ==
    {Built(<<Pkg, PkgA>>), Built(<<Pkg, PkgSub, PkgSubB>>),
     Built(<<Pkg, PkgCfg>>), Built(<<OldPkg, OldPkgA>>), Built(<<>>)}

\* the sdist the build backend writes for a repository
BuiltSdist(repository) == Built(<<Pkg, PkgA>>)

\* values SOURCE_DATE_EPOCH may hold when main starts
OverrideValues == {"0", "315532800", "978307200.0", "build"}

InitMain ==
    /\ IdleOverride
    /\ IdleWheels
    /\ IdleFs
    /\ env \in Envs
    /\ environ \in {[k \in {} |-> ""]}
                   \cup {[k \in {SDE} |-> v] : v \in OverrideValues}
    /\ \E nr \in 0..MaxInputs : \E ns \in 0..(MaxInputs - nr) :
          /\ nr + ns >= 1
          /\ parsed \in [repositories : [1..nr -> Repositories],
                         sdists : [1..ns -> Sdists]]
    /\ handled = 0
    /\ trace = <<>>
    /\ mainPc = "run"
    /\ ctx = [pc |-> "idle"]
    /\ steps = 0
    /\ calls = 0
    /\ sdist = Absent
    /\ input = Absent
    /\ epoch = NoEpoch
    /\ inputEpoch = NoEpoch
    /\ status = "init"
    /\ IdleZip
    /\ IdleKey
    /\ IdleBatch

\* one pass of the first loop: build the sdist, find the date, cleanse
MainRepository(built, directory, now) ==
    LET repository == parsed.repositories[handled + 1]
        date == ResolveDate(environ, repository)
        r == cleanse_metadata(BuiltSdist(repository), date.value, env,
                              directory, now)
        event == [op |-> "sdist", repository |-> repository,
                  entry |-> environ, built |-> built]
    IN  /\ mainPc = "run"
        /\ handled < Len(parsed.repositories)
        /\ handled' = handled + 1
        /\ IF ~built
           THEN /\ trace' = Append(trace, event @@ [git |-> "unused",
                                                    cleansed |-> FALSE])
                /\ mainPc' = "raised"
                /\ UNCHANGED tarVars
           ELSE IF ~date.ok
           THEN /\ trace' = Append(trace, event @@ [git |-> date.git,
                                                    cleansed |-> FALSE])
                /\ mainPc' = "raised"
                /\ sdist' = BuiltSdist(repository)
                /\ UNCHANGED <<env, input, epoch, inputEpoch, status>>
           ELSE /\ trace' = Append(trace, event @@ [git |-> date.git,
                                                    cleansed |-> TRUE,
                                                    date |-> date.value])
                /\ mainPc' = IF r.rc = "ok" THEN "run" ELSE "raised"
                /\ sdist' = r.file
                /\ input' = BuiltSdist(repository)
                /\ epoch' = date.value
                /\ inputEpoch' = NoEpoch
                /\ status' = r.rc
                /\ UNCHANGED env
        /\ UNCHANGED <<overrideVars, wheelsVars, fsVars,
                       zipVars, envVars, keyVars, batchVars, calls, parsed>>

\* one pass of the second loop: publish the sdist's latest modification
\* time as SOURCE_DATE_EPOCH, build the wheel with the builder which names,
\* restore the environment, then _sortwheel(zipumask(built))
MainSdist(built) ==
    LET file == parsed.sdists[handled + 1 - Len(parsed.repositories)]
        latest == latest_modification_time(file)
        during == [k \in {SDE} |-> latest.value]
        before == Before(environ, during)
        entered == _update(environ, during)
        builder == which(file)
        beforeCibw == Before(entered, CibwEnvironment)
        building == IF builder = "cibuildwheel"
                    THEN _update(entered, CibwEnvironment) ELSE entered
        left == IF builder = "cibuildwheel"
                THEN _update(building, beforeCibw) ELSE building
        event == [op |-> "wheel", file |-> file, entry |-> environ]
    IN  /\ mainPc = "run"
        /\ handled >= Len(parsed.repositories)
        /\ handled < Len(parsed.repositories) + Len(parsed.sdists)
        /\ handled' = handled + 1
        /\ IF ~latest.ok
           THEN /\ trace' = Append(trace, event @@ [built |-> FALSE,
                                                    builder |-> "none"])
                /\ mainPc' = "raised"
                /\ UNCHANGED environ
           ELSE /\ trace' = Append(trace, event @@ [built |-> built,
                                                    builder |-> builder,
                                                    during |-> building])
                /\ mainPc' = IF built THEN "run" ELSE "raised"
                /\ environ' = _update(left, before)
        /\ UNCHANGED <<overrideVars, wheelsVars, fsVars,
                       tarVars, zipVars, keyVars, batchVars, calls, parsed,
                       ctx, steps>>

\* return 0
MainReturn ==
    /\ mainPc = "run"
    /\ handled = Len(parsed.repositories) + Len(parsed.sdists)
    /\ mainPc' = "returned"
    /\ UNCHANGED <<overrideVars, wheelsVars, fsVars,
                   tarVars, zipVars, envVars, keyVars, batchVars, calls,
                   parsed, handled, trace>>

NextMain ==
    \/ \E built \in BOOLEAN, directory \in ScratchDirs, now \in Clock :
          MainRepository(built, directory, now)
    \/ \E built \in BOOLEAN : MainSdist(built)
    \/ MainReturn

SpecMain == InitMain /\ [][NextMain]_vars

(***************************************************************************)
(* Properties of the tar normalizer                                        *)
(***************************************************************************)
Normalized == status = "ok"

OutCount == Len(sdist.members)

\* the last member of ms with path p, the one extraction leaves on disk
LastWith(ms, p) ==
    LET I == {j \in 1..Len(ms) : ms[j].path = p}
    IN  ms[CHOOSE j \in I : \A k \in I : k <= j]

InInput(p) == \E j \in 1..Len(input.members) : input.members[j].path = p

\* the epoch after clamping, written out
Clamped == IF TimeLT(epoch, EARLIEST(env)) THEN EARLIEST(env) ELSE epoch

\* C1: after cleanse_metadata returns 0, every member of the archive has
\* uid 0, gid 0, uname "root" and gname "root", whatever the input held.
C1_Ownership ==
    Normalized =>
        \A i \in 1..OutCount :
            /\ sdist.members[i].uid = 0
            /\ sdist.members[i].gid = 0
            /\ sdist.members[i].uname = "root"
            /\ sdist.members[i].gname = "root"

\* an archive with a member owned by alice was normalized by a process
\* that is not the superuser
C1_Witness ==
    /\ Normalized
    /\ env.euid # 0
    /\ \E j \in 1..Len(input.members) :
          input.members[j].uid = 1000 /\ input.members[j].gname = "users"
    /\ OutCount >= 2

\* C2: after cleanse_metadata returns 0, no member has the group-write or
\* the other-write bit, and every other mode bit of a member is the bit of
\* the input member of the same path.
C2_Mode ==
    Normalized =>
        \A i \in 1..OutCount :
            LET m == sdist.members[i]
            IN  /\ Bit(m.mode, S_IWGRP) = 0
                /\ Bit(m.mode, S_IWOTH) = 0
                /\ InInput(m.path) =>
                      \A b \in PermBits \ {S_IWGRP, S_IWOTH} :
                          Bit(m.mode, b)
                              = Bit(LastWith(input.members, m.path).mode, b)

\* a member stored as 0o777 came out as 0o755
C2_Witness ==
    /\ Normalized
    /\ \E i \in 1..OutCount :
          /\ InInput(sdist.members[i].path)
          /\ LastWith(input.members, sdist.members[i].path).mode
                = Oct(0, 7, 7, 7)
          /\ sdist.members[i].mode = Oct(0, 7, 5, 5)

\* C3: for an epoch below 315532800 the call is not rejected for that
\* reason and every member's mtime is 315532800 exactly.
C3_ClampTo1980 ==
    (Normalized /\ TimeLT(epoch, Time(315532800, 0))) =>
        \A i \in 1..OutCount : sdist.members[i].mtime = 315532800

\* C4 as stated: the members' mtime is floor(epoch) and the gzip header,
\* st_mtime and st_atime all equal the clamped epoch.
C4_OneEpochEverywhere ==
    Normalized =>
        /\ \A i \in 1..OutCount : sdist.members[i].mtime = Clamped.s
        /\ Time(sdist.gzmtime, 0) = Clamped
        /\ sdist.mtime = Clamped
        /\ sdist.atime = Clamped

\* C4 amended: the members' mtime and the gzip header's mtime are
\* floor(clamped epoch); st_mtime and st_atime are the clamped epoch.
C4_Timestamps ==
    Normalized =>
        /\ \A i \in 1..OutCount : sdist.members[i].mtime = Clamped.s
        /\ sdist.gzmtime = Clamped.s
        /\ sdist.mtime = Clamped
        /\ sdist.atime = Clamped

\* a fractional epoch above the floor was applied
C4_Witness ==
    /\ Normalized
    /\ epoch.h = 1
    /\ ~TimeLT(epoch, EARLIEST(env))
    /\ OutCount >= 2
    /\ sdist.mtime = epoch
    /\ sdist.gzmtime # PyInt(BuildTime)

\* C5: a second call with the same epoch on the result of a first call
\* leaves the archive as the first call left it.
C5_Idempotent ==
    (Normalized /\ inputEpoch = epoch) => sdist = input

\* the second of two successful calls with the same epoch
C5_Witness ==
    /\ Normalized
    /\ inputEpoch = epoch
    /\ calls = 2
    /\ OutCount >= 2
    /\ input.exists

\* input with every member's mode set to mode, its owner and mtime reset
\* and the container timestamps reset
Remode(file, mode) ==
    Archive([j \in 1..Len(file.members) |->
                [file.members[j] EXCEPT
                    !.mode = mode, !.uid = 0, !.gid = 0, !.uname = "root",
                    !.gname = "root", !.mtime = 0]],
            0, Time(0, 0), Time(0, 0))

\* input with owner and mtime reset, the group-write and other-write bits
\* cleared and the container timestamps reset
Canon(file) ==
    Archive([j \in 1..Len(file.members) |->
                [file.members[j] EXCEPT
                    !.mode = ClearBit(ClearBit(@, S_IWGRP), S_IWOTH),
                    !.uid = 0, !.gid = 0, !.uname = "root",
                    !.gname = "root", !.mtime = 0]],
            0, Time(0, 0), Time(0, 0))

Masked == umaskArg # NoUmask

\* C7: with the default umask 0o022, zipumask clears the group-write and
\* other-write bits of the upper half of external_attr and leaves every
\* other bit of external_attr as it was.
C7_OnlyWriteBitsCleared ==
    (Masked /\ umaskArg = Oct(0, 0, 2, 2)) =>
        \A i \in 1..Len(wheel) :
            /\ Bit(wheel[i].hi, S_IWGRP) = 0
            /\ Bit(wheel[i].hi, S_IWOTH) = 0
            /\ \A b \in Bits16 \ {S_IWGRP, S_IWOTH} :
                  Bit(wheel[i].hi, b) = Bit(wheelInput[i].hi, b)
            /\ wheel[i].lo = wheelInput[i].lo

\* members stored again with another compression method and level
Recompress(members, compress_type, level) ==
    [i \in 1..Len(members) |->
        [members[i] EXCEPT
            !.compress_type = compress_type,
            !.compress_size =
                CompressSize(compress_type, level, members[i].data)]]

\* C8: an input that differs from this one only in the compression method
\* and level of its members is rewritten with the same compression method
\* and the same compressed size, member by member.
C8_FixedCompression ==
    Masked =>
        \A compress_type \in Methods, level \in Levels :
            LET other == zipumask(
                             Recompress(wheelInput, compress_type, level),
                             umaskArg)
            IN  \A i \in 1..Len(wheel) :
                    /\ other[i].compress_type = wheel[i].compress_type
                    /\ other[i].compress_size = wheel[i].compress_size

\* C9: zipumask applied to the result of zipumask, with the same umask,
\* leaves the archive as it was.
C9_ZipIdempotent ==
    (Masked /\ inputUmask = umaskArg) => wheel = wheelInput

\* zipumask ran twice with the default umask on an archive of two members,
\* one of them -rwxr-xr-x after masking
C9_Witness ==
    /\ calls = 2
    /\ inputUmask = umaskArg
    /\ umaskArg = Oct(0, 0, 2, 2)
    /\ Len(wheel) >= 2
    /\ \E i \in 1..Len(wheel) : wheel[i].hi = 32768 + Oct(0, 7, 5, 5)

(***************************************************************************)
(* Properties of ModifiedEnvironment                                       *)
(***************************************************************************)
Left == ctx.pc \in {"exited", "raised"}

\* C10: once the with block is left, normally or by an exception, every
\* overridden key holds the value it had on entry, and a key that was not
\* set on entry is not set.
C10_Restored ==
    Left =>
        \A k \in DOMAIN ctx.during :
            /\ (k \in DOMAIN environ) = (k \in DOMAIN ctx.entry)
            /\ k \in DOMAIN environ => environ[k] = ctx.entry[k]

\* a block that overrode a key not set on entry, ran statements and raised
C10_Witness ==
    /\ ctx.pc = "raised"
    /\ steps >= 1
    /\ \E k \in DOMAIN ctx.during :
          k \notin DOMAIN ctx.entry /\ ctx.during[k] # None
    /\ \E k \in DOMAIN ctx.during :
          k \in DOMAIN ctx.entry /\ ctx.during[k] # ctx.entry[k]

(***************************************************************************)
(* Claims about breadth_first_key, key and sorting                         *)
(***************************************************************************)
\* the file names in the list being sorted
ListedFiles == {i \in 1..Len(listing) : listing[i].hasFilename}

\* p is a plain file of the directory that the first k characters name
PlainIn(p, k) ==
    /\ k < Len(p)
    /\ k = 0 \/ p[k] = "/"
    /\ \A j \in (k + 1)..Len(p) : p[j] # "/"

\* q lies in a subdirectory of the directory that the first k characters
\* of p name
InSubdirectory(q, p, k) ==
    /\ k < Len(q)
    /\ SubSeq(q, 1, k) = SubSeq(p, 1, k)
    /\ \E j \in (k + 1)..Len(q) : q[j] = "/"

\* C15: under breadth_first_key, among the entries of one parent directory,
\* every plain file sorts strictly before every entry that lies in a
\* subdirectory of that parent, at every depth; sorted() therefore puts the
\* file first when key gives both the same group.
C15_FilesBeforeSubdirectories ==
    \A i, j \in ListedFiles :
        LET p == listing[i].text
            q == listing[j].text
        IN  \A k \in 0..Len(p) :
                PlainIn(p, k) /\ InSubdirectory(q, p, k)
                => /\ ListLess(breadth_first_key(p), breadth_first_key(q))
                   /\ ~ListLess(breadth_first_key(q), breadth_first_key(p))
                   /\ (sorts >= 1 /\ key(listing[i])[1] = key(listing[j])[1])
                      => i < j

F_1_2py == <<"1", "/", "2", ".", "p", "y">>
F_1_1_xpy == <<"1", "/", "1", "/", "x", ".", "p", "y">>

C15_Witness ==
    /\ sorts = 1
    /\ listingInput = <<ZipInfo(F_1_1_xpy), ZipInfo(F_1_2py)>>
    /\ listing = <<ZipInfo(F_1_2py), ZipInfo(F_1_1_xpy)>>

S_RECORDname == <<"R", "E", "C", "O", "R", "D">>

\* C16 as stated: for any three paths where p3 has a path segment with
\* "RECORD" in it, p2 contains "dist-info" and is not a RECORD file, and p1
\* is neither, key orders p1 < p2 < p3.
C16_RecordSegmentLast ==
    \A i1, i2, i3 \in 1..Len(listing) :
        LET p1 == KeyPath(listing[i1])
            p2 == KeyPath(listing[i2])
            p3 == KeyPath(listing[i3])
        IN  (/\ Contains(p3, S_RECORDname)
             /\ Contains(p2, S_distinfo) /\ ~Contains(p2, S_RECORDname)
             /\ ~Contains(p1, S_distinfo) /\ ~Contains(p1, S_RECORDname))
            => /\ KeyLess(key(listing[i1]), key(listing[i2]))
               /\ KeyLess(key(listing[i2]), key(listing[i3]))

\* C16: for any three paths where p3 contains "/RECORD", p2 contains
\* "dist-info" and not "/RECORD", and p1 contains neither, key orders
\* p1 < p2 < p3 whatever their alphabetical order.
C16_SlashRecordLast ==
    \A i1, i2, i3 \in 1..Len(listing) :
        LET p1 == KeyPath(listing[i1])
            p2 == KeyPath(listing[i2])
            p3 == KeyPath(listing[i3])
        IN  (/\ Contains(p3, S_RECORD)
             /\ Contains(p2, S_distinfo) /\ ~Contains(p2, S_RECORD)
             /\ ~Contains(p1, S_distinfo) /\ ~Contains(p1, S_RECORD))
            => /\ KeyLess(key(listing[i1]), key(listing[i2]))
               /\ KeyLess(key(listing[i2]), key(listing[i3]))
               /\ sorts >= 1 => i1 < i2 /\ i2 < i3

F_zpy == <<"z", ".", "p", "y">>
F_WHEEL == <<"p", ".", "d", "i", "s", "t", "-", "i", "n", "f", "o", "/", "W", "H", "E", "E", "L">>
F_RECORD == <<"p", ".", "d", "i", "s", "t", "-", "i", "n", "f", "o", "/", "R", "E", "C", "O", "R", "D">>

C16_Witness ==
    /\ sorts = 1
    /\ listingInput = <<ZipInfo(F_RECORD), ZipInfo(F_zpy), ZipInfo(F_WHEEL)>>
    /\ listing = <<ZipInfo(F_zpy), ZipInfo(F_WHEEL), ZipInfo(F_RECORD)>>

\* the items key can be compared with: those of the same kind as item
Comparable(item) ==
    IF item.hasFilename THEN {ZipInfo(f) : f \in FileNames}
    ELSE {Bytes(l) : l \in RecordLines}

\* C17: the order key induces is a strict total order: of two keys exactly
\* one of less, equal, greater holds, less is transitive, and two items
\* with equal keys are the same item.
C17_StrictTotalOrder ==
    \A i \in 1..Len(listing) :
        /\ \A other \in Comparable(listing[i]) :
              LET a == key(listing[i])
                  b == key(other)
              IN  /\ a = b => listing[i] = other
                  /\ listing[i] = other => a = b
                  /\ a # b => KeyLess(a, b) # KeyLess(b, a)
                  /\ a = b => ~KeyLess(a, b)
        /\ \A j, k \in 1..Len(listing) :
              KeyLess(key(listing[i]), key(listing[j]))
              /\ KeyLess(key(listing[j]), key(listing[k]))
              => KeyLess(key(listing[i]), key(listing[k]))

F_a == <<"a">>
F_aSlash == <<"a", "/">>

C17_Witness ==
    /\ sorts = 1
    /\ listingInput = <<ZipInfo(F_aSlash), ZipInfo(F_a)>>
    /\ listing = <<ZipInfo(F_a), ZipInfo(F_aSlash)>>

\* the lists that hold the items of l in some order
PermutationsOf(l) ==
    {[i \in 1..Len(l) |-> l[f[i]]] :
        f \in {g \in [1..Len(l) -> 1..Len(l)] :
                  \A i, j \in 1..Len(l) : g[i] = g[j] => i = j}}

\* C18: sorting any permutation of a list of distinct items by key gives
\* the same list, and sorting that list again leaves it unchanged.
C18_CanonicalOrder ==
    sorts >= 1 =>
        /\ \A l \in PermutationsOf(listingInput) : SortedByKey(l) = listing
        /\ SortedByKey(listing) = listing

C18_Witness ==
    /\ sorts = 2
    /\ Len(listing) >= 3
    /\ ~listing[1].hasFilename
    /\ listing = listingInput
    /\ \E l \in PermutationsOf(listing) : l # listing

(***************************************************************************)
(* Claims about the cleanse main                                           *)
(***************************************************************************)
CleanseEnded == cleansePc \in {"returned", "raised"}

Failed(i) == attempts[i] = "error"

\* C19: when the normalization of an earlier archive of the batch fails,
\* normalization is still attempted on every later archive: the cleanse
\* main ends only after it has called cleanse_metadata on every archive.
C19_AllAttempted ==
    CleanseEnded => Len(attempts) = Len(distributions)

\* C20: the status the cleanse main returns is non-zero if the
\* normalization of any archive of the batch failed, at whatever position,
\* and is 0 only if every archive was normalized.
C20_AggregateStatus ==
    CleanseEnded =>
        /\ (\E i \in 1..Len(attempts) : Failed(i))
           => cleansePc = "returned" /\ returncode # 0
        /\ (cleansePc = "returned" /\ returncode = 0)
           => /\ Len(attempts) = Len(distributions)
              /\ \A i \in 1..Len(attempts) : ~Failed(i)

(***************************************************************************)
(* Claims about main                                                       *)
(***************************************************************************)
\* passes of the first loop that reached cleanse_metadata
Cleansed == {i \in 1..Len(trace) : trace[i].op = "sdist" /\ trace[i].cleansed}

\* passes of the second loop that reached the wheel build
WheelBuilds ==
    {i \in 1..Len(trace) : trace[i].op = "wheel" /\ trace[i].builder # "none"}

Overridden(i) == SDE \in DOMAIN trace[i].entry

OverrideOf(i) == Float(Spell[trace[i].entry[SDE]]).value

CommitTimeOf(i) == Float(RStripNewline(trace[i].repository.stdout)).value

LatestOf(i) ==
    LET ms == trace[i].file.members
    IN  CHOOSE t \in {ms[j].mtime : j \in 1..Len(ms)} :
            \A j \in 1..Len(ms) : ms[j].mtime <= t

\* C11 as stated: whenever SOURCE_DATE_EPOCH is set when main runs, its
\* value is the epoch used for every archive built, sdists built from
\* repositories and wheels built from sdists alike; the commit time and the
\* latest member mtime are used only when it is not set.
C11_OverrideEverywhere ==
    /\ \A i \in Cleansed :
          IF Overridden(i)
          THEN trace[i].date = OverrideOf(i) /\ trace[i].git = "unused"
          ELSE trace[i].date = CommitTimeOf(i)
    /\ \A i \in WheelBuilds :
          IF Overridden(i)
          THEN trace[i].during[SDE] = trace[i].entry[SDE]
          ELSE Spell[trace[i].during[SDE]] = DigitsOf(LatestOf(i))

\* C11: whenever SOURCE_DATE_EPOCH is set when main runs, its value is the
\* epoch of every sdist built from a repository and git is not asked; the
\* commit time is used only when it is not set.  A wheel built from an sdist
\* is built with SOURCE_DATE_EPOCH set to the sdist's latest member mtime,
\* whether or not the variable was set.
C11_OverrideForSdists ==
    /\ \A i \in Cleansed :
          IF Overridden(i)
          THEN trace[i].date = OverrideOf(i) /\ trace[i].git = "unused"
          ELSE trace[i].date = CommitTimeOf(i) /\ trace[i].git = "ok"
    /\ \A i \in WheelBuilds :
          Spell[trace[i].during[SDE]] = DigitsOf(LatestOf(i))

C11_Witness ==
    /\ mainPc = "returned"
    /\ \E i \in Cleansed :
          /\ Overridden(i)
          /\ trace[i].repository.git = "ok"
          /\ trace[i].date # CommitTimeOf(i)
    /\ \E i \in WheelBuilds :
          Overridden(i) /\ trace[i].during[SDE] # trace[i].entry[SDE]

\* C12: every epoch handed to a build or a normalization is at least
\* 315532800: the timestamps cleanse_metadata wrote for a repository's
\* sdist, and the SOURCE_DATE_EPOCH a wheel is built with.
C12_NeverBelowEarliest ==
    /\ status = "ok" =>
          /\ sdist.gzmtime >= 315532800
          /\ \A j \in 1..Len(sdist.members) :
                sdist.members[j].mtime >= 315532800
    /\ \A i \in WheelBuilds :
          Float(Spell[trace[i].during[SDE]]).value.s >= 315532800

\* C13: when SOURCE_DATE_EPOCH is not set and git fails for a repository,
\* main ends with the error at that repository and cleanse_metadata is not
\* called for it; every date cleanse_metadata is called with is the
\* override or the commit time git printed.
C13_NoFallback ==
    /\ \A i \in 1..Len(trace) :
          (/\ trace[i].op = "sdist"
           /\ trace[i].built
           /\ ~Overridden(i)
           /\ trace[i].repository.git # "ok")
          => /\ ~trace[i].cleansed
             /\ i = Len(trace)
             /\ mainPc = "raised"
    /\ \A i \in Cleansed :
          \/ Overridden(i) /\ trace[i].date = OverrideOf(i)
          \/ /\ ~Overridden(i)
             /\ trace[i].repository.git = "ok"
             /\ trace[i].date = CommitTimeOf(i)

C13_Witness ==
    /\ mainPc = "raised"
    /\ Len(trace) = 2
    /\ trace[1].op = "sdist" /\ trace[1].cleansed
    /\ trace[2].op = "sdist" /\ trace[2].built /\ ~trace[2].cleansed
    /\ ~Overridden(2)
    /\ trace[2].repository.git = "CalledProcessError"

\* a member of the archive has a name whose last two characters are ".c"
HasCSource(archive) ==
    \E j \in 1..Len(archive.members) :
        LET name == MemberName(archive.members[j].path)
        IN  /\ Len(name) >= 2
            /\ name[Len(name) - 1] = "."
            /\ name[Len(name)] = "c"

\* C14: Builder.which returns cibuildwheel if and only if at least one
\* member name of the archive ends with ".c", and build otherwise; there is
\* no third outcome.
C14_Which ==
    \A i \in WheelBuilds :
        /\ trace[i].builder \in {"cibuildwheel", "build"}
        /\ trace[i].builder = "cibuildwheel" <=> HasCSource(trace[i].file)

C14_Witness ==
    /\ \E i \in WheelBuilds :
          /\ trace[i].builder = "cibuildwheel"
          /\ "CIBW_BUILD_FRONTEND" \in DOMAIN trace[i].during
    /\ \E i \in WheelBuilds :
          /\ trace[i].builder = "build"
          /\ \E j \in 1..Len(trace[i].file.members) :
                trace[i].file.members[j].path = <<"pkg", "x.cfg">>

(***************************************************************************)
(* More claims about breadth_first_key and key                             *)
(***************************************************************************)
FirstSlash(path) ==
    CHOOSE k \in 1..Len(path) :
        path[k] = "/" /\ \A j \in 1..(k - 1) : path[j] # "/"

HasSlash(path) == \E k \in 1..Len(path) : path[k] = "/"

\* the reference definition: ["", path], or ["/", head, key of rest]
RECURSIVE ReferenceKey(_)
ReferenceKey(path) ==
    IF ~HasSlash(path) THEN List(<<Str(<<>>), Str(path)>>)
    ELSE LET k == FirstSlash(path)
         IN  List(<<Str(<<"/">>), Str(SubSeq(path, 1, k - 1)),
                    ReferenceKey(SubSeq(path, k + 1, Len(path)))>>)

\* the reference definition without a third element when rest is empty
RECURSIVE ReferenceKeyShort(_)
ReferenceKeyShort(path) ==
    IF ~HasSlash(path) THEN List(<<Str(<<>>), Str(path)>>)
    ELSE LET k == FirstSlash(path)
         IN  IF k = Len(path)
             THEN List(<<Str(<<"/">>), Str(SubSeq(path, 1, k - 1))>>)
             ELSE List(<<Str(<<"/">>), Str(SubSeq(path, 1, k - 1)),
                         ReferenceKeyShort(SubSeq(path, k + 1, Len(path)))>>)

\* C25 as stated: for every path breadth_first_key returns ["", path] when
\* the path has no "/", and ["/", head, breadth_first_key(rest)] when it
\* has, paths that end in "/" and paths with an empty segment included.
C25_ReferenceDefinition ==
    \A i \in 1..Len(listing) :
        PyEq(breadth_first_key(listing[i].text),
             ReferenceKey(listing[i].text))

\* C25: for every path breadth_first_key returns ["", path] when the path
\* has no "/", ["/", head] when nothing follows the first "/", and
\* ["/", head, breadth_first_key(rest)] otherwise.
C25_DefinitionShort ==
    \A i \in 1..Len(listing) :
        PyEq(breadth_first_key(listing[i].text),
             ReferenceKeyShort(listing[i].text))

F_aSlashSlashX == <<"a", "/", "/", "x">>

C25_Witness ==
    /\ sorts = 1
    /\ \E i \in 1..Len(listing) : listing[i] = ZipInfo(F_aSlash)
    /\ \E i \in 1..Len(listing) : listing[i] = ZipInfo(F_aSlashSlashX)
    /\ \E i \in 1..Len(listing) : listing[i] = ZipInfo(F_zpy)

\* C26: the key of a RECORD line is decided by the path before its first
\* comma alone: two lines with different paths p and q are ordered as the
\* zip members named p and q are.
C26_LinesOrderedAsMembers ==
    \A i, j \in 1..Len(listing) :
        (/\ ~listing[i].hasFilename
         /\ ~listing[j].hasFilename
         /\ KeyPath(listing[i]) # KeyPath(listing[j]))
        => (KeyLess(key(listing[i]), key(listing[j]))
            <=> KeyLess(key(ZipInfo(KeyPath(listing[i]))),
                        key(ZipInfo(KeyPath(listing[j])))))

\* C29: comparing the keys of two paths, or of two RECORD lines, never
\* meets a str on one side and a list on the other, so sorted() by key
\* raises no TypeError.
C29_NoTypeError ==
    /\ ~SortRaises(listing)
    /\ \A i \in 1..Len(listing) : \A other \in Comparable(listing[i]) :
          /\ KeyCompare(key(listing[i]), key(other)) # "TypeError"
          /\ KeyCompare(key(other), key(listing[i])) # "TypeError"

F_1_xpy == <<"1", "/", "x", ".", "p", "y">>

C29_Witness ==
    /\ sorts = 1
    /\ listingInput = <<ZipInfo(F_aSlash), ZipInfo(F_1_1_xpy), ZipInfo(F_1_xpy)>>
    /\ listing = <<ZipInfo(F_1_xpy), ZipInfo(F_1_1_xpy), ZipInfo(F_aSlash)>>

(***************************************************************************)
(* Claims about _sortwheel                                                 *)
(***************************************************************************)
\* the member of the input wheel that has this name
InputMember(filename) ==
    wheelInput[CHOOSE i \in 1..Len(wheelInput) : wheelInput[i].text = filename]

\* the lines of data are in the order key gives
LinesInOrder(data) ==
    LET lines == SplitLines(data)
    IN  \A i \in 1..(Len(lines) - 1) :
            ~KeyLess(key(Bytes(lines[i + 1])), key(Bytes(lines[i])))

\* two files hold the same lines, each as often
SameLines(a, b) ==
    LET la == SplitLines(a)
        lb == SplitLines(b)
    IN  /\ Len(la) = Len(lb)
        /\ \A l \in {la[i] : i \in 1..Len(la)} :
              Cardinality({i \in 1..Len(la) : la[i] = l})
              = Cardinality({i \in 1..Len(lb) : lb[i] = l})

\* C30: _sortwheel changes only order: the output holds exactly the members
\* of the input; a member key puts in group 3 has its lines permuted into
\* sorted order, and every other member has the bytes it had.
C30_OnlyOrderChanges ==
    calls >= 1 =>
        /\ Len(wheel) = Len(wheelInput)
        /\ {wheel[i].text : i \in 1..Len(wheel)}
           = {wheelInput[i].text : i \in 1..Len(wheelInput)}
        /\ \A i \in 1..Len(wheel) :
              IF key(wheel[i])[1] = 3
              THEN /\ SameLines(wheel[i].data, InputMember(wheel[i].text).data)
                   /\ LinesInOrder(wheel[i].data)
              ELSE wheel[i].data = InputMember(wheel[i].text).data

(***************************************************************************)
(* override                                                                *)
(***************************************************************************)
\* characters that end the name of a requirement
AfterName == {"=", "<", ">", "!", "~", ";", "[", " "}

RECURSIVE NameChars(_)
NameChars(text) ==
    IF text = <<>> \/ Head(text) \in AfterName THEN <<>>
    ELSE <<Head(text)>> \o NameChars(Tail(text))

\* packaging.requirements.Requirement, as far as override uses it
Requirement(text) == [name |-> NameChars(text)]

\* CONSTRAINTS: "wheel==0.43.0"
CONSTRAINTS == {<<"w","h","e","e","l","=","=","0",".","4","3",".","0">>}

override(before, constraints_) ==
    UNION {{IF Requirement(i).name = Requirement(replacement).name
            THEN replacement ELSE i : i \in before}
           : replacement \in constraints_}

\* requirements a build backend asks for
BuildRequires ==
    {<<"e","x","a","m","p","l","e">>,
     <<"e","x","a","m","p","l","e",">","=","1">>,
     <<"o","t","h","e","r">>,
     <<"w","h","e","e","l">>}

\* constraints override is called with
ConstraintSets ==
    SUBSET (CONSTRAINTS \cup {<<"e","x","a","m","p","l","e","=","=","2">>,
                              <<"o","t","h","e","r","=","=","2">>})

InitOverride ==
    /\ requires \in SUBSET BuildRequires
    /\ constraints \in ConstraintSets
    /\ after = NotCalled
    /\ IdleTar
    /\ IdleZip
    /\ IdleEnv
    /\ IdleKey
    /\ IdleBatch
    /\ IdleMain
    /\ IdleWheels
    /\ IdleFs
    /\ calls = 0

Override ==
    /\ ~after.called
    /\ after' = [called |-> TRUE, value |-> override(requires, constraints)]
    /\ UNCHANGED <<tarVars, zipVars, envVars, keyVars, batchVars, mainVars,
                   wheelsVars, fsVars, calls, requires, constraints>>

NextOverride == Override

SpecOverride == InitOverride /\ [][NextOverride]_vars

(***************************************************************************)
(* Claims about override                                                   *)
(***************************************************************************)
\* the constraints that name the package of a requirement
ConstraintsFor(i) ==
    {c \in constraints : Requirement(c).name = Requirement(i).name}

\* C28: override returns one element per requirement of before: the
\* constraint that has the requirement's package name when there is one, the
\* requirement itself otherwise, whatever the set of constraints is (empty
\* and of several constraints included).
C28_OnePerRequirement ==
    after.called =>
        /\ \A i \in requires :
              IF ConstraintsFor(i) = {}
              THEN i \in after.value
              ELSE /\ ConstraintsFor(i) \cap after.value # {}
                   /\ i \notin after.value
        /\ \A a \in after.value :
              \E i \in requires :
                  IF ConstraintsFor(i) = {} THEN a = i
                  ELSE a \in ConstraintsFor(i)

(***************************************************************************)
(* build_wheels.py: main and build_wheel_from_sdist                        *)
(***************************************************************************)
\* what Path.is_file says of a source distribution named on the command line
OnDisk == {[is_file |-> TRUE, archive |-> a] : a \in Sdists}
          \cup {[is_file |-> FALSE]}

InitWheels ==
    /\ environ \in {[k \in {} |-> ""]}
                   \cup {[k \in {SDE} |-> v] : v \in OverrideValues}
    /\ \E n \in 1..MaxInputs :
          args \in [source_distribution : [1..n -> OnDisk],
                    output : {"dir", "missing"}]
    /\ visited = 0
    /\ observed = <<>>
    /\ wheelsPc = "run"
    /\ ctx = [pc |-> "idle"]
    /\ steps = 0
    /\ calls = 0
    /\ IdleTar
    /\ IdleZip
    /\ IdleKey
    /\ IdleBatch
    /\ IdleMain
    /\ IdleOverride
    /\ IdleFs

\* the test main makes before it builds anything
Buildable ==
    /\ \A i \in 1..Len(args.source_distribution) :
          args.source_distribution[i].is_file
    /\ args.output = "dir"

\* print(__doc__); return 1
WheelsUsage ==
    /\ wheelsPc = "run"
    /\ ~Buildable
    /\ wheelsPc' = "returned"
    /\ UNCHANGED <<tarVars, zipVars, envVars, keyVars, batchVars, mainVars,
                   overrideVars, fsVars, calls, args, visited, observed>>

\* one call of build_wheel_from_sdist: the assignment to os.environ, then
\* the extraction, the build and zipumask, any of which may raise
BuildWheelFromSdist(built) ==
    LET sdist_ == args.source_distribution[visited + 1].archive
        latest == latest_modification_time(sdist_)
    IN  /\ wheelsPc = "run"
        /\ Buildable
        /\ visited < Len(args.source_distribution)
        /\ visited' = visited + 1
        /\ observed' = Append(observed, environ)
        /\ IF ~latest.ok
           THEN /\ wheelsPc' = "raised"
                /\ UNCHANGED environ
           ELSE /\ environ' = _update(environ, [k \in {SDE} |-> latest.value])
                /\ wheelsPc' = IF built THEN "run" ELSE "raised"
        /\ UNCHANGED <<tarVars, zipVars, keyVars, batchVars, mainVars,
                       overrideVars, fsVars, calls, args, ctx, steps>>

\* return min(issues, 1)
WheelsReturn ==
    /\ wheelsPc = "run"
    /\ Buildable
    /\ visited = Len(args.source_distribution)
    /\ wheelsPc' = "returned"
    /\ UNCHANGED <<tarVars, zipVars, envVars, keyVars, batchVars, mainVars,
                   overrideVars, fsVars, calls, args, visited, observed>>

NextWheels ==
    \/ WheelsUsage
    \/ \E built \in BOOLEAN : BuildWheelFromSdist(built)
    \/ WheelsReturn

SpecWheels == InitWheels /\ [][NextWheels]_vars

(***************************************************************************)
(* Claims about the environment across archives                            *)
(***************************************************************************)
\* C27: handling several sdists in one process leaves no epoch setting
\* behind: every archive finds the environment the entry point was started
\* with, and once the entry point has returned or raised the environment is
\* the one it was started with.  Stated for build_wheels' main.
C27_NoEpochLeftBehind ==
    /\ \A i \in 1..Len(observed) : observed[i] = observed[1]
    /\ (wheelsPc \in {"returned", "raised"} /\ Len(observed) >= 1)
           => environ = observed[1]

\* the same for reproducibly's main, which sets the epoch inside
\* ModifiedEnvironment: there the environment is restored
C27_ScopedInMain ==
    /\ \A i \in 1..Len(trace) : trace[i].entry = trace[1].entry
    /\ (mainPc \in {"returned", "raised"} /\ Len(trace) >= 1)
           => environ = trace[1].entry

(***************************************************************************)
(* Claims about the failures of cleanse_metadata                           *)
(***************************************************************************)
\* the entries Path(directory).iterdir() finds after extracting the file
\* that was at the path when the call started
InputTopLevel ==
    TopLevel(ExtractAll(input.members, env, CHOOSE now \in Clock : TRUE))

\* C21: when the archive does not extract to exactly one top-level entry
\* (none, or two or more), cleanse_metadata raises before it has changed
\* anything at the archive path, and writes no normalized archive: the file
\* at the path is the one the call was given.
C21_LayoutErrorBeforeAnyChange ==
    (calls >= 1 /\ input.exists /\ Cardinality(InputTopLevel) # 1) =>
        /\ status = "error"
        /\ sdist = input

(***************************************************************************)
(* The normalizers statement by statement, on the file system              *)
(*                                                                         *)
(* fs.path is what the archive path holds: "original" (the file the call   *)
(* was given), "absent", "partial" (a file being written) or "rewritten"   *)
(* (the complete replacement).  fs.scratch is the TemporaryDirectory and   *)
(* the names in it.  fs.outside is every other path the call has written.  *)
(***************************************************************************)
NoScratch == [exists |-> FALSE]

Scratch(names) == [exists |-> TRUE, names |-> names]

\* how far below the extraction directory the path ends, or -1 once a ".."
\* has stepped above it
RECURSIVE DepthFrom(_, _)
DepthFrom(p, depth) ==
    IF depth < 0 THEN -1
    ELSE IF p = <<>> THEN depth
    ELSE DepthFrom(Tail(p), IF Head(p) = ".." THEN depth - 1 ELSE depth + 1)

\* the member is written outside the directory extractall was given
Escapes(p) == DepthFrom(p, 0) < 0

\* member names of the .tar.gz files cleanse_metadata is run on, or
\* NotGzip for a file tarfile.open cannot read
NotGzip == [readable |-> FALSE]

TarInputs ==
    {NotGzip}
    \cup {[readable |-> TRUE, names |-> n] :
            n \in {{},
                   {<<"pkg">>},
                   {<<"pkg">>, <<"pkg", "a.py">>},
                   {<<"pkg">>, <<"other">>},
                   {<<"pkg">>, <<"..", "x">>},
                   {<<"pkg">>, <<"pkg", "..", "..", "x">>}}}

\* TarFile.extraction_filter: without filter= extractall applies the
\* default of the running Python, fully_trusted before 3.14 and data from
\* 3.14 on; data refuses a member that would land outside the directory
ExtractionFilters == {"fully_trusted", "data"}

\* whether TemporaryDirectory() is on the file system of the archive
Devices == {"same", "other"}

\* Path(directory).iterdir() after extractall
Extracted(names) == {<<p[1]>> : p \in {q \in names : q[1] # ".."}}

InitFs ==
    /\ fs = [path |-> "original", scratch |-> NoScratch, outside |-> {}]
    /\ \/ call \in [op : {"cleanse_metadata"}, pc : {"enter"},
                    archive : TarInputs,
                    extraction_filter : ExtractionFilters]
       \/ call \in [op : {"zipumask", "_sortwheel"}, pc : {"enter"},
                    readable : BOOLEAN, device : Devices]
    /\ calls = 0
    /\ IdleTar
    /\ IdleZip
    /\ IdleEnv
    /\ IdleKey
    /\ IdleBatch
    /\ IdleMain
    /\ IdleOverride
    /\ IdleWheels

FsFrame ==
    UNCHANGED <<tarVars, zipVars, envVars, keyVars, batchVars, mainVars,
                overrideVars, wheelsVars, calls>>

\* an exception leaves the with block: TemporaryDirectory.__exit__ removes
\* the directory, then the exception leaves the call
Raise(fs_) ==
    /\ fs' = [fs_ EXCEPT !.scratch = NoScratch]
    /\ call' = [call EXCEPT !.pc = "raised"]

\* with TemporaryDirectory() as directory:
Enter_ ==
    /\ call.pc = "enter"
    /\ fs' = [fs EXCEPT !.scratch = Scratch({})]
    /\ call' = [call EXCEPT !.pc = IF call.op = "cleanse_metadata"
                                   THEN "extractall" ELSE "rewrite"]
    /\ FsFrame

\* with tarfile.open(path) as tar: tar.extractall(path=directory)
Extract ==
    /\ call.op = "cleanse_metadata"
    /\ call.pc = "extractall"
    /\ IF ~call.archive.readable
       THEN Raise(fs)
       ELSE LET names == call.archive.names
                escaping == {p \in names : Escapes(p)}
            IN  IF escaping # {} /\ call.extraction_filter = "data"
                THEN Raise(fs)
                ELSE /\ fs' = [fs EXCEPT
                                 !.scratch = Scratch(Extracted(names)),
                                 !.outside = @ \cup escaping]
                     /\ call' = [call EXCEPT !.pc = "unlink"]
    /\ FsFrame

\* path.unlink(missing_ok=True)
Unlink ==
    /\ call.op = "cleanse_metadata"
    /\ call.pc = "unlink"
    /\ fs' = [fs EXCEPT !.path = "absent"]
    /\ call' = [call EXCEPT !.pc = "iterdir"]
    /\ FsFrame

\* (extracted,) = Path(directory).iterdir()
Iterdir ==
    /\ call.op = "cleanse_metadata"
    /\ call.pc = "iterdir"
    /\ IF Cardinality(fs.scratch.names) # 1
       THEN Raise(fs)
       ELSE /\ call' = [call EXCEPT !.pc = "tar"]
            /\ UNCHANGED fs
    /\ FsFrame

\* with tarfile.open(uncompressed, "w") as tar: tar.add(...), which an
\* I/O error may end
WriteTar(ok) ==
    /\ call.op = "cleanse_metadata"
    /\ call.pc = "tar"
    /\ IF ~ok
       THEN Raise(fs)
       ELSE LET extracted == CHOOSE p \in fs.scratch.names : TRUE
            IN  /\ fs' = [fs EXCEPT !.scratch.names =
                             @ \cup {<<extracted[1], ".tar">>}]
                /\ call' = [call EXCEPT !.pc = "gzip"]
    /\ FsFrame

\* gzip.GzipFile(filename=path, mode="wb", ...) opens the archive path for
\* writing
GzipOpen ==
    /\ call.op = "cleanse_metadata"
    /\ call.pc = "gzip"
    /\ fs' = [fs EXCEPT !.path = "partial"]
    /\ call' = [call EXCEPT !.pc = "copyfileobj"]
    /\ FsFrame

\* copyfileobj(tar, file) and the close of the gzip file, which an I/O
\* error may end
CopyFileObj(ok) ==
    /\ call.op = "cleanse_metadata"
    /\ call.pc = "copyfileobj"
    /\ IF ~ok
       THEN Raise(fs)
       ELSE /\ fs' = [fs EXCEPT !.path = "rewritten"]
            /\ call' = [call EXCEPT !.pc = "exit"]
    /\ FsFrame

\* with ZipFile(path, "r") as original, ZipFile(copy, "w") as destination:
\* BadZipFile on a file that is no zip, or an I/O error
Rewrite(ok) ==
    /\ call.op \in {"zipumask", "_sortwheel"}
    /\ call.pc = "rewrite"
    /\ IF ~call.readable \/ ~ok
       THEN Raise(fs)
       ELSE /\ fs' = [fs EXCEPT !.scratch.names = {<<"copy">>}]
            /\ call' = [call EXCEPT !.pc = "unlink"]
    /\ FsFrame

\* path.unlink() / wheel.unlink()
UnlinkWheel ==
    /\ call.op \in {"zipumask", "_sortwheel"}
    /\ call.pc = "unlink"
    /\ fs' = [fs EXCEPT !.path = "absent"]
    /\ call' = [call EXCEPT !.pc = "move"]
    /\ FsFrame

\* shutil.move on one file system: os.rename
MoveRename ==
    /\ call.op \in {"zipumask", "_sortwheel"}
    /\ call.pc = "move"
    /\ call.device = "same"
    /\ fs' = [fs EXCEPT !.path = "rewritten", !.scratch.names = {}]
    /\ call' = [call EXCEPT !.pc = "exit"]
    /\ FsFrame

\* shutil.move across file systems: os.rename fails, copy2 starts to write
\* the destination
MoveCopy ==
    /\ call.op \in {"zipumask", "_sortwheel"}
    /\ call.pc = "move"
    /\ call.device = "other"
    /\ fs' = [fs EXCEPT !.path = "partial"]
    /\ call' = [call EXCEPT !.pc = "copy2"]
    /\ FsFrame

\* the rest of copy2, which an I/O error may end, then os.unlink(src)
MoveFinish(ok) ==
    /\ call.op \in {"zipumask", "_sortwheel"}
    /\ call.pc = "copy2"
    /\ IF ~ok
       THEN Raise(fs)
       ELSE /\ fs' = [fs EXCEPT !.path = "rewritten", !.scratch.names = {}]
            /\ call' = [call EXCEPT !.pc = "exit"]
    /\ FsFrame

\* the end of the with block, then return
Exit ==
    /\ call.pc = "exit"
    /\ fs' = [fs EXCEPT !.scratch = NoScratch]
    /\ call' = [call EXCEPT !.pc = "returned"]
    /\ FsFrame

NextFs ==
    \/ Enter_
    \/ Extract
    \/ Unlink
    \/ Iterdir
    \/ \E ok \in BOOLEAN : WriteTar(ok)
    \/ GzipOpen
    \/ \E ok \in BOOLEAN : CopyFileObj(ok)
    \/ \E ok \in BOOLEAN : Rewrite(ok)
    \/ UnlinkWheel
    \/ MoveRename
    \/ MoveCopy
    \/ \E ok \in BOOLEAN : MoveFinish(ok)
    \/ Exit

SpecFs == InitFs /\ [][NextFs]_vars

(***************************************************************************)
(* Claims about the scratch directory and the replacement of the archive   *)
(***************************************************************************)
Ended == call.pc \in {"returned", "raised"}

\* C22: the scratch directory of a normalization call exists from the start
\* of the call, no longer exists once the call has returned or raised, and
\* the call writes no path but the archive path and the scratch directory.
C22_ScratchScoped ==
    /\ Ended => ~fs.scratch.exists
    /\ (~Ended /\ call.pc # "enter") => fs.scratch.exists
    /\ fs.outside = {}

\* the part of C22 about the life of the scratch directory alone
C22_ScratchRemoved ==
    /\ Ended => ~fs.scratch.exists
    /\ (~Ended /\ call.pc # "enter") => fs.scratch.exists

\* C23: at every point of zipumask and _sortwheel the archive path holds
\* the complete original or the complete rewritten archive, and the copy
\* that is moved over the original is on the file system of the archive.
C23_AtomicReplace ==
    call.op \in {"zipumask", "_sortwheel"} =>
        /\ fs.path \in {"original", "rewritten"}
        /\ call.pc \in {"move", "copy2"} => call.device = "same"

\* C24: a failure at any step of cleanse_metadata leaves the original
\* archive at its path, the replacement taking its place only once it is
\* written completely.
C24_OriginalSurvivesFailure ==
    call.op = "cleanse_metadata" =>
        /\ call.pc = "raised" => fs.path = "original"
        /\ fs.path \in {"original", "rewritten"}

====
